---- MODULE Spec2Model ----
(***************************************************************************)
(* Model of the hitchy core routing engine: the route compiler             *)
(* (lib/router/types/route.js) and the routing-table normaliser            *)
(* (lib/router/normalize/definition.js), and of its servers: the basic     *)
(* server (lib/server/basic.js) and the connect injector                   *)
(* (injector/connect.js).                                                  *)
(*                                                                         *)
(* Javascript strings are sequences of one-character strings, so that the  *)
(* regular expressions, trimming and case conversions of the code are      *)
(* computed character by character.  Every other Javascript value is a     *)
(* record tagged with its kind in field t.                                 *)
(***************************************************************************)
EXTENDS Integers, Sequences, FiniteSets, TLC

VARIABLES
    api,      \* the HitchyAPI handed to the route constructors
    source,   \* the caller's source definition
    target,   \* the caller's target definition (an object the constructor may write)
    call,     \* class and arguments of the latest constructor or normaliser call
    route,    \* what the latest constructor call produced: a Route or an exception
    raw,      \* the raw routing definition handed to the normalisers
    table,    \* what the latest normaliser call produced
    job,      \* the call of generateExamples in progress, if any
    server,   \* the basic server: its listener, its handlers and its shutdown
    injector  \* the connect injector: its start-up, its requests and its stops

vars == <<api, source, target, call, route, raw, table, job, server, injector>>

----------------------------------------------------------------------------
(* Bounds of the model *)

MaxKeys == 6

MaxItems == 3

----------------------------------------------------------------------------
(* Javascript values *)

Undefined == [t |-> "undefined"]

Null == [t |-> "null"]

Bool(b) == [t |-> "boolean", b |-> b]

Num(n) == [t |-> "number", n |-> n]

Str(s) == [t |-> "string", s |-> s]

Fun(id) == [t |-> "function", fn |-> id]

Arr(items) == [t |-> "array", items |-> items]

Obj(props) == [t |-> "object", props |-> props]

Dict(keys, vals) == [t |-> "dict", keys |-> keys, vals |-> vals]

MapOf(entries) == [t |-> "map", entries |-> entries]

Threw == [threw |-> TRUE]

Typeof(v) ==
    IF v.t \in {"array", "null", "dict", "map", "runtime"} THEN "object"
    ELSE IF v.t = "text" THEN "string"
    ELSE v.t

IsArray(v) == v.t = "array"

Truthy(v) ==
    CASE v.t = "undefined" -> FALSE
      [] v.t = "null" -> FALSE
      [] v.t = "boolean" -> v.b
      [] v.t = "number" -> v.n # 0
      [] v.t = "string" -> Len(v.s) > 0
      [] OTHER -> TRUE

HasOwn(v, name) == v.t = "object" /\ name \in DOMAIN v.props

GetProp(v, name) == IF HasOwn(v, name) THEN v.props[name] ELSE Undefined

----------------------------------------------------------------------------
(* Strings *)

LowerCase == << "a", "b", "c", "d", "e", "f", "g", "h", "i", "j", "k", "l", "m",
                "n", "o", "p", "q", "r", "s", "t", "u", "v", "w", "x", "y", "z" >>

UpperCase == << "A", "B", "C", "D", "E", "F", "G", "H", "I", "J", "K", "L", "M",
                "N", "O", "P", "Q", "R", "S", "T", "U", "V", "W", "X", "Y", "Z" >>

DigitChars == << "0", "1", "2", "3", "4", "5", "6", "7", "8", "9" >>

IsLower(c) == \E i \in 1..26 : LowerCase[i] = c

IsUpper(c) == \E i \in 1..26 : UpperCase[i] = c

IsLetter(c) == IsLower(c) \/ IsUpper(c)

IsWordChar(c) == IsLetter(c) \/ c = "_" \/ \E i \in 1..10 : DigitChars[i] = c

IsSpace(c) == c = " "

\* toUpperChar leaving every character as it is
toUpperChar_Unchanged(c) == c

toUpperChar(c) ==
    IF IsLower(c) THEN UpperCase[CHOOSE i \in 1..26 : LowerCase[i] = c] ELSE c

toLowerChar(c) ==
    IF IsUpper(c) THEN LowerCase[CHOOSE i \in 1..26 : UpperCase[i] = c] ELSE c

toUpperCase(s) == [i \in 1..Len(s) |-> toUpperChar(s[i])]

toLowerCase(s) == [i \in 1..Len(s) |-> toLowerChar(s[i])]

MinOf(S) == CHOOSE x \in S : \A y \in S : x <= y

MaxOf(S) == CHOOSE x \in S : \A y \in S : x >= y

slice(s, from) == SubSeq(s, from, Len(s))

trim(s) ==
    LET solid == {i \in 1..Len(s) : ~IsSpace(s[i])}
    IN  IF solid = {} THEN <<>> ELSE SubSeq(s, MinOf(solid), MaxOf(solid))

EndsWith(s, tail) ==
    Len(s) >= Len(tail) /\ SubSeq(s, Len(s) - Len(tail) + 1, Len(s)) = tail

Throw(message) == [threw |-> TRUE, error |-> message]

----------------------------------------------------------------------------
(* Route.preparseSource and Route.parseSource *)

ALL == << "A", "L", "L" >>

\* the method alternative of the source pattern: \*|[a-z][-a-z]+ (ignoring case)
IsMethodToken(token) ==
    \/ token = << "*" >>
    \/ /\ Len(token) >= 2
       /\ IsLetter(token[1])
       /\ \A i \in 2..Len(token) : IsLetter(token[i]) \/ token[i] = "-"

\* s matches \s*=>.+ from position p up to its end
HasArrowAt(s, p) ==
    \E q \in p..(Len(s) - 2) :
        /\ \A i \in p..(q - 1) : IsSpace(s[i])
        /\ s[q] = "="
        /\ s[q + 1] = ">"

\* /^(?:(\*|[a-z][-a-z]+)\s+)?([=~]?\/.*?)(?:\s*=>.+)?$/i.exec( s ) || []
SourceRegExp(s) ==
    LET spaces == {i \in 1..Len(s) : IsSpace(s[i])}
        firstSpace == IF spaces = {} THEN 0 ELSE MinOf(spaces)
        token == IF firstSpace = 0 THEN <<>> ELSE SubSeq(s, 1, firstSpace - 1)
        RestFrom(hasType) ==
            IF hasType
            THEN MinOf({i \in firstSpace..(Len(s) + 1) : i > Len(s) \/ ~IsSpace(s[i])})
            ELSE 1
        Match(hasType, rest) ==
            LET slashAt == IF Len(rest) >= 1 /\ rest[1] \in {"=", "~"} THEN 2 ELSE 1
                matches == Len(rest) >= slashAt /\ rest[slashAt] = "/"
                cuts == {p \in (slashAt + 1)..Len(rest) : HasArrowAt(rest, p)}
                url == IF cuts = {} THEN rest ELSE SubSeq(rest, 1, MinOf(cuts) - 1)
            IN  IF matches
                THEN [type |-> IF hasType THEN Str(token) ELSE Undefined, url |-> Str(url)]
                ELSE [type |-> Undefined, url |-> Undefined]
        Rest(hasType) == Match(hasType, slice(s, RestFrom(hasType)))
    IN  Rest(IsMethodToken(token))

\* /^[^/]|\/\/|\/:(?:\W|$)|\(\)/.test( url )
PathRegExpTest(url) ==
    \/ Len(url) >= 1 /\ url[1] # "/"
    \/ \E i \in 1..(Len(url) - 1) : url[i] = "/" /\ url[i + 1] = "/"
    \/ \E i \in 1..(Len(url) - 1) :
           /\ url[i] = "/"
           /\ url[i + 1] = ":"
           /\ (i + 2 > Len(url) \/ ~IsWordChar(url[i + 2]))
    \/ \E i \in 1..(Len(url) - 1) : url[i] = "(" /\ url[i + 1] = ")"

preparseSource(definition) ==
    LET isString == definition.t = "string"
        urlProp == GetProp(definition, "url")
        typeProp == GetProp(definition, "type")
        usable == /\ definition.t = "object"
                  /\ urlProp.t = "string"
                  /\ Len(trim(urlProp.s)) > 0
        Result(type, exact, prefix, url) ==
            IF PathRegExpTest(url)
            THEN Throw("path of route must begin with a slash")
            ELSE [threw |-> FALSE, type |-> type, url |-> url,
                  prefix |-> prefix, exact |-> exact]
        Marked(type, exact, prefix, url0) ==
            Result(type, exact, prefix,
                   IF exact \/ prefix THEN trim(slice(url0.s, 2)) ELSE url0.s)
        Typed(upper, url0) ==
            Marked(IF Len(upper) = 0 \/ upper = << "*" >> THEN ALL ELSE upper,
                   Len(url0.s) > 0 /\ url0.s[1] = "=",
                   Len(url0.s) > 0 /\ url0.s[1] = "~",
                   url0)
        Checked(type0, url0) ==
            IF type0.t # "string" THEN Throw("route w/ invalid type")
            ELSE IF url0.t # "string" THEN Throw("invalid URL in route")
            ELSE Typed(toUpperCase(trim(type0.s)), url0)
        Matched(match) ==
            Checked(IF isString
                    THEN IF match.type.t = "undefined" THEN Str(ALL) ELSE match.type
                    ELSE IF HasOwn(definition, "type") THEN typeProp ELSE Str(ALL),
                    IF isString THEN match.url ELSE urlProp)
    IN  IF ~isString /\ ~usable THEN Throw("invalid route")
        ELSE IF ~isString /\ typeProp.t \notin {"undefined", "string"}
        THEN Throw("invalid type on route for URL")
        ELSE Matched(IF isString
                     THEN SourceRegExp(trim(definition.s))
                     ELSE [type |-> Undefined, url |-> Undefined])

IsMeta(c) == c \in {"*", "+", "?", "(", ":", "[", "{"}

\* /^([^*+?(:[{]*)(.[*+?]|[(:[{]|$)/.exec( url ): lengths of the first group
\* for which the second group matches
PrefixCuts(url) ==
    {n \in 0..Len(url) :
        /\ \A i \in 1..n : ~IsMeta(url[i])
        /\ \/ n = Len(url)
           \/ url[n + 1] \in {"(", ":", "[", "{"}
           \/ n + 2 <= Len(url) /\ url[n + 2] \in {"*", "+", "?"}}

ExtractPrefix(url) ==
    LET Trimmed(run) ==
            IF Len(run) > 0 /\ run[Len(run)] = "/"
            THEN SubSeq(run, 1, Len(run) - 1)
            ELSE run
        NonEmpty(trimmed) == IF Len(trimmed) = 0 THEN << "/" >> ELSE trimmed
    IN  NonEmpty(Trimmed(SubSeq(url, 1, MaxOf(PrefixCuts(url)))))

----------------------------------------------------------------------------
(* path-to-regexp, as Route calls it: the lexer and the parser of a path.    *)
(* Patterns in parentheses are taken as valid regular expressions.           *)

Token(type, value) == [type |-> type, value |-> value]

\* the position behind the word characters that start at position j
RECURSIVE NameEnd(_, _)
NameEnd(str, j) ==
    IF j <= Len(str) /\ IsWordChar(str[j]) THEN NameEnd(str, j + 1) ELSE j

\* the pattern that starts behind an opening parenthesis
RECURSIVE ScanPattern(_, _, _, _)
ScanPattern(str, j, count, pattern) ==
    IF j > Len(str)
    THEN [threw |-> TRUE, j |-> j, pattern |-> pattern]
    ELSE IF str[j] = "\\"
    THEN ScanPattern(str, j + 2, count,
                     pattern \o SubSeq(str, j, MinOf({j + 1, Len(str)})))
    ELSE IF str[j] = ")"
    THEN IF count = 1
         THEN [threw |-> pattern = <<>>, j |-> j + 1, pattern |-> pattern]
         ELSE ScanPattern(str, j + 1, count - 1, Append(pattern, ")"))
    ELSE IF str[j] = "("
    THEN IF j + 1 > Len(str) \/ str[j + 1] # "?"
         THEN [threw |-> TRUE, j |-> j, pattern |-> pattern]
         ELSE ScanPattern(str, j + 1, count + 1, Append(pattern, "("))
    ELSE ScanPattern(str, j + 1, count, Append(pattern, str[j]))

RECURSIVE lexer(_, _, _)
lexer(str, i, tokens) ==
    LET Named(j) ==
            IF j = i + 1 THEN Throw("Missing parameter name")
            ELSE lexer(str, j, Append(tokens, Token("NAME", SubSeq(str, i + 1, j - 1))))
        Grouped(scan) ==
            IF scan.threw THEN Throw("Invalid pattern")
            ELSE lexer(str, scan.j, Append(tokens, Token("PATTERN", scan.pattern)))
    IN  IF i > Len(str)
        THEN [threw |-> FALSE, tokens |-> Append(tokens, Token("END", <<>>))]
        ELSE IF str[i] \in {"*", "+", "?"}
        THEN lexer(str, i + 1, Append(tokens, Token("MODIFIER", << str[i] >>)))
        ELSE IF str[i] = "\\"
        THEN lexer(str, i + 2, Append(tokens, Token("ESCAPED_CHAR", SubSeq(str, i + 1, MinOf({i + 1, Len(str)})))))
        ELSE IF str[i] = "{"
        THEN lexer(str, i + 1, Append(tokens, Token("OPEN", << "{" >>)))
        ELSE IF str[i] = "}"
        THEN lexer(str, i + 1, Append(tokens, Token("CLOSE", << "}" >>)))
        ELSE IF str[i] = ":"
        THEN Named(NameEnd(str, i + 1))
        ELSE IF str[i] = "("
        THEN IF i + 1 <= Len(str) /\ str[i + 1] = "?"
             THEN Throw("Pattern cannot start with ?")
             ELSE Grouped(ScanPattern(str, i + 1, 1, <<>>))
        ELSE lexer(str, i + 1, Append(tokens, Token("CHAR", << str[i] >>)))

\* [^\/#\?]+? is written as the pattern of a parameter without one
DefaultPattern == << "[", "^", "\\", "/", "#", "\\", "?", "]", "+", "?" >>

TextToken(text) ==
    [kind |-> "text", text |-> text, name |-> <<>>, numbered |-> FALSE, prefix |-> <<>>,
     suffix |-> <<>>, pattern |-> <<>>, modifier |-> <<>>]

KeyToken(name, numbered, prefix, suffix, pattern, modifier) ==
    [kind |-> "key", text |-> <<>>, name |-> name, numbered |-> numbered, prefix |-> prefix,
     suffix |-> suffix, pattern |-> pattern, modifier |-> modifier]

\* decimal digits of a small number
RECURSIVE Digits(_)
Digits(n) ==
    IF n < 10 THEN << DigitChars[n + 1] >>
    ELSE Append(Digits(n \div 10), DigitChars[(n % 10) + 1])

\* tryConsume( type ) at position i: the value of the token, or nothing
TypeAt(tokens, i) == IF i <= Len(tokens) THEN tokens[i].type ELSE "NONE"

ValueAt(tokens, i, type) ==
    IF TypeAt(tokens, i) = type THEN tokens[i].value ELSE <<>>

Behind(tokens, i, type) == IF TypeAt(tokens, i) = type THEN i + 1 ELSE i

\* consumeText(): the position behind the characters that start at position i
RECURSIVE TextEnd(_, _)
TextEnd(tokens, i) ==
    IF TypeAt(tokens, i) \in {"CHAR", "ESCAPED_CHAR"} /\ tokens[i].value # <<>>
    THEN TextEnd(tokens, i + 1)
    ELSE IF TypeAt(tokens, i) = "ESCAPED_CHAR" THEN i + 1
    ELSE i

RECURSIVE TextOf(_, _, _)
TextOf(tokens, i, j) ==
    IF i >= j THEN <<>> ELSE tokens[i].value \o TextOf(tokens, i + 1, j)

Pushed(result, path) == IF path = <<>> THEN result ELSE Append(result, TextToken(path))

RECURSIVE parseTokens(_, _, _, _, _)
parseTokens(tokens, i, key, path, result) ==
    LET \* a parameter or a pattern, with the character before it
        Key(char, iName, iPattern, iModifier) ==
            LET name == ValueAt(tokens, iName, "NAME")
                pattern == ValueAt(tokens, iPattern, "PATTERN")
                isPrefix == char \in {<<>>, << "." >>, << "/" >>}
            IN  parseTokens(tokens, Behind(tokens, iModifier, "MODIFIER"),
                    IF name = <<>> THEN key + 1 ELSE key,
                    <<>>,
                    Append(Pushed(result, IF isPrefix THEN path ELSE path \o char),
                           KeyToken(IF name = <<>> THEN Digits(key) ELSE name,
                                    name = <<>>,
                                    IF isPrefix THEN char ELSE <<>>,
                                    <<>>,
                                    IF pattern = <<>> THEN DefaultPattern ELSE pattern,
                                    ValueAt(tokens, iModifier, "MODIFIER"))))
        \* a group in braces
        Group(iPrefix, iName, iPattern, iSuffix, iClose) ==
            LET name == ValueAt(tokens, iName, "NAME")
                pattern == ValueAt(tokens, iPattern, "PATTERN")
            IN  IF TypeAt(tokens, iClose) # "CLOSE" THEN Throw("Unexpected token, expected CLOSE")
                ELSE parseTokens(tokens, Behind(tokens, iClose + 1, "MODIFIER"),
                        IF name = <<>> /\ pattern # <<>> THEN key + 1 ELSE key,
                        <<>>,
                        Append(Pushed(result, path),
                               KeyToken(IF name # <<>> THEN name
                                        ELSE IF pattern # <<>> THEN Digits(key) ELSE <<>>,
                                        name = <<>> /\ pattern # <<>>,
                                        TextOf(tokens, iPrefix, iName),
                                        TextOf(tokens, iSuffix, iClose),
                                        IF name # <<>> /\ pattern = <<>> THEN DefaultPattern ELSE pattern,
                                        ValueAt(tokens, iClose + 1, "MODIFIER"))))
        GroupFrom(iPrefix, iName) ==
            LET iPattern == Behind(tokens, iName, "NAME")
                iSuffix == Behind(tokens, iPattern, "PATTERN")
            IN  Group(iPrefix, iName, iPattern, iSuffix, TextEnd(tokens, iSuffix))
        \* what follows once the text collected so far is complete
        Other(j) ==
            IF TypeAt(tokens, j) = "OPEN" THEN GroupFrom(j + 1, TextEnd(tokens, j + 1))
            ELSE IF TypeAt(tokens, j) = "END"
            THEN [threw |-> FALSE, tokens |-> Pushed(result, path)]
            ELSE Throw("Unexpected token, expected END")
        Step(iName) ==
            LET iPattern == Behind(tokens, iName, "NAME")
                char == IF iName > i THEN tokens[i].value ELSE <<>>
            IN  IF TypeAt(tokens, iName) = "NAME" \/ TypeAt(tokens, iPattern) = "PATTERN"
                THEN Key(char, iName, iPattern, Behind(tokens, iPattern, "PATTERN"))
                ELSE IF char # <<>>
                THEN parseTokens(tokens, iName, key, path \o char, result)
                ELSE IF TypeAt(tokens, iName) = "ESCAPED_CHAR"
                THEN IF tokens[iName].value # <<>>
                     THEN parseTokens(tokens, iName + 1, key, path \o tokens[iName].value, result)
                     ELSE Other(iName + 1)
                ELSE Other(iName)
    IN  Step(Behind(tokens, i, "CHAR"))

\* parse( str ): the texts and keys of a path
parse(str) ==
    LET Parsed(lexed) ==
            IF lexed.threw THEN lexed ELSE parseTokens(lexed.tokens, 1, 0, <<>>, <<>>)
    IN  Parsed(lexer(str, 1, <<>>))

\* the keys of a path, in the order of their declaration
Keys(tokens) == SelectSeq(tokens, LAMBDA token : token.kind = "key" /\ token.pattern # <<>>)

\* Compiler( url, { encode: encodeURIComponent } ): the function rendering a
\* path from values of its parameters, given by the tokens it renders
Compiler(url) == [fn |-> "render", tokens |-> parse(url).tokens]

\* Parser( url, parameters, { sensitive: true, end } ) of path-to-regexp
Parser(url, end) == [path |-> url, sensitive |-> TRUE, end |-> end]

\* SelectEnd without its last assignment: an exact marker no longer anchors
SelectEnd_IgnoringExact(isMatchingPrefix, matchPrefix, exact) ==
    IF matchPrefix THEN FALSE ELSE ~isMatchingPrefix

SelectEnd(isMatchingPrefix, matchPrefix, exact) ==
    LET byDefault == ~isMatchingPrefix
        byPrefix == IF matchPrefix THEN FALSE ELSE byDefault
    IN  IF exact THEN TRUE ELSE byPrefix

parseSource(src, isMatchingPrefix) ==
    LET Compile(pre) ==
            IF pre.threw THEN pre
            ELSE IF parse(pre.url).threw THEN parse(pre.url)
            ELSE IF PrefixCuts(pre.url) = {} THEN Throw("undefined is not iterable")
            ELSE [threw |-> FALSE,
                  method |-> pre.type,
                  definition |-> pre.url,
                  pattern |-> Parser(pre.url, SelectEnd(isMatchingPrefix, pre.prefix, pre.exact)),
                  parameters |-> Keys(parse(pre.url).tokens),
                  prefix |-> ExtractPrefix(pre.url),
                  render |-> Compiler(pre.url)]
    IN  Compile(preparseSource(src))

----------------------------------------------------------------------------
(* Route.parseTarget *)

\* ([^.:#]+)(?:(?:\.|::|#)(.+))?$ matched against the whole of rest
TargetTail(rest) ==
    LET seps == {i \in 1..Len(rest) : rest[i] \in {".", ":", "#"}}
        Split(stop, sepLen) ==
            IF stop = 1 \/ sepLen = -1 \/ (sepLen > 0 /\ stop + sepLen > Len(rest))
            THEN [ok |-> FALSE]
            ELSE [ok |-> TRUE, module |-> SubSeq(rest, 1, stop - 1),
                  method |-> IF sepLen = 0 THEN Undefined
                             ELSE Str(slice(rest, stop + sepLen))]
        Stop(stop) ==
            Split(stop,
                  IF stop > Len(rest) THEN 0
                  ELSE IF rest[stop] # ":" THEN 1
                  ELSE IF stop + 1 <= Len(rest) /\ rest[stop + 1] = ":" THEN 2
                  ELSE -1)
    IN  Stop(IF seps = {} THEN Len(rest) + 1 ELSE MinOf(seps))

\* /^(?:.+?=>\s*)?([^.:#]+)(?:(?:\.|::|#)(.+))?$/.exec( s )
TargetRegExp(s) ==
    LET arrows == {q \in 2..(Len(s) - 1) : s[q] = "=" /\ s[q + 1] = ">"}
        Works(q, w) == /\ q + 1 + w <= Len(s)
                       /\ \A i \in (q + 2)..(q + 1 + w) : IsSpace(s[i])
                       /\ TargetTail(slice(s, q + 2 + w)).ok
        skips(q) == {w \in 0..Len(s) : Works(q, w)}
        From(q) == TargetTail(slice(s, q + 2 + MaxOf(skips(q))))
        Choose(usable) == IF usable # {} THEN From(MinOf(usable)) ELSE TargetTail(s)
    IN  Choose({q \in arrows : skips(q) # {}})

\* module.replace( this.tailPattern, "" ) with tailPattern = /<tail>$/i
StripTail(tail, name) ==
    IF EndsWith(toLowerCase(name), tail)
    THEN SubSeq(name, 1, Len(name) - Len(tail))
    ELSE name

\* Case.kebabToPascal of lib/utility/case
RECURSIVE kebabWalk(_, _)
kebabWalk(s, raise) ==
    IF Len(s) = 0 THEN <<>>
    ELSE IF Head(s) = "-" THEN kebabWalk(Tail(s), TRUE)
    ELSE << IF raise THEN toUpperChar(Head(s)) ELSE Head(s) >> \o kebabWalk(Tail(s), FALSE)

kebabToPascal(s) == kebabWalk(s, TRUE)

\* Case.camelToPascal of lib/utility/case
camelToPascal(s) ==
    IF Len(s) = 0 THEN s ELSE << toUpperChar(Head(s)) >> \o Tail(s)

\* TerminalRoute looking its symbols up among the policies
TerminalRoute_AmongPolicies ==
    [class |-> "TerminalRoute",
     isMatchingPrefix |-> FALSE,
     tailPattern |-> << "c", "o", "n", "t", "r", "o", "l", "l", "e", "r" >>,
     collectionSingularName |-> "controller",
     collectionPluralName |-> "policies"]

\* the variants: static getters of TerminalRoute and PolicyRoute
TerminalRoute ==
    [class |-> "TerminalRoute",
     isMatchingPrefix |-> FALSE,
     tailPattern |-> << "c", "o", "n", "t", "r", "o", "l", "l", "e", "r" >>,
     collectionSingularName |-> "controller",
     collectionPluralName |-> "controllers"]

PolicyRoute ==
    [class |-> "PolicyRoute",
     isMatchingPrefix |-> TRUE,
     tailPattern |-> << "p", "o", "l", "i", "c", "y" >>,
     collectionSingularName |-> "policy",
     collectionPluralName |-> "policies"]

INDEX == << "i", "n", "d", "e", "x" >>

\* IsDescriptor without the test for a method
IsDescriptor_NameOnly(tgt) ==
    \/ Truthy(GetProp(tgt, "module"))
    \/ Truthy(GetProp(tgt, "controller"))
    \/ Truthy(GetProp(tgt, "policy"))

\* _target && ( _target.module || _target.controller || _target.policy ) && _target.method
IsDescriptor(tgt) ==
    /\ \/ Truthy(GetProp(tgt, "module"))
       \/ Truthy(GetProp(tgt, "controller"))
       \/ Truthy(GetProp(tgt, "policy"))
    /\ Truthy(GetProp(tgt, "method"))

\* the switch on typeof target: the descriptor { module, method[, args] }
\* the rest of parseTarget works on, the handler when target is a function
SelectTarget(tgt) ==
    LET Selector(match) ==
            IF ~match.ok THEN Throw("invalid routing target selector")
            ELSE [threw |-> FALSE, direct |-> FALSE, shared |-> FALSE,
                  descriptor |-> Obj([module |-> Str(match.module),
                                      method |-> IF Truthy(match.method)
                                                 THEN match.method
                                                 ELSE Str(INDEX)])]
        Copy(name) ==
            [threw |-> FALSE, direct |-> FALSE, shared |-> FALSE,
             descriptor |-> IF HasOwn(tgt, "args")
                            THEN Obj([module |-> name,
                                      method |-> GetProp(tgt, "method"),
                                      args |-> GetProp(tgt, "args")])
                            ELSE Obj([module |-> name, method |-> GetProp(tgt, "method")])]
    IN  CASE tgt.t = "string" -> Selector(TargetRegExp(trim(tgt.s)))
          [] tgt.t = "function" ->
                [threw |-> FALSE, direct |-> TRUE, shared |-> FALSE, descriptor |-> tgt]
          [] tgt.t = "object" ->
                IF IsDescriptor(tgt)
                THEN IF Truthy(GetProp(tgt, "module"))
                     THEN [threw |-> FALSE, direct |-> FALSE, shared |-> TRUE, descriptor |-> tgt]
                     ELSE Copy(IF Truthy(GetProp(tgt, "controller"))
                               THEN GetProp(tgt, "controller")
                               ELSE GetProp(tgt, "policy"))
                ELSE Throw("invalid routing target descriptor")
          [] OTHER -> Throw("invalid routing target descriptor")

\* FindImplementation taking the last candidate present instead of the first
FindImplementation_LastPresent(implementations, module) ==
    LET Find(names) ==
            LET found == {i \in 1..3 : names[i] \in DOMAIN implementations}
            IN  IF found = {} THEN Undefined ELSE Str(names[MaxOf(found)])
    IN  Find(<< module, kebabToPascal(module), camelToPascal(module) >>)

\* [ module, kebabToPascal, camelToPascal ].find( name => implementations.hasOwnProperty( name ) )
FindImplementation(implementations, module) ==
    LET Find(names) ==
            LET found == {i \in 1..3 : names[i] \in DOMAIN implementations}
            IN  IF found = {} THEN Undefined ELSE Str(names[MinOf(found)])
    IN  Find(<< module, kebabToPascal(module), camelToPascal(module) >>)

Member(implementation, method) ==
    IF method.t = "string" /\ method.s \in DOMAIN implementation
    THEN implementation[method.s]
    ELSE Undefined

SelectArgs(descriptor) ==
    IF IsArray(GetProp(descriptor, "args")) THEN GetProp(descriptor, "args").items
    ELSE IF HasOwn(descriptor, "args") THEN << GetProp(descriptor, "args") >>
    ELSE <<>>

Warning(template, variant, module, method) ==
    [t |-> "text", template |-> template,
     collection |-> variant.collectionSingularName,
     module |-> module, method |-> method]

\* result: the compiled target and the caller's target object as parseTarget leaves it
parseTarget(variant, tgt, _api) ==
    LET Result(selected, module, method, implementName, handler) ==
            [threw |-> FALSE,
             handler |-> handler,
             args |-> IF handler.t = "function" THEN SelectArgs(selected.descriptor) ELSE <<>>,
             warning |-> IF ~Truthy(implementName)
                         THEN Warning("invalid route to missing %collection %module (to contain action %method)",
                                      variant, module, method)
                         ELSE IF handler.t = "function" THEN Null
                         ELSE Warning("invalid route to missing %collection action %module.%method",
                                      variant, module, method),
             target |-> IF selected.shared
                        THEN Obj([tgt.props EXCEPT !.module = Str(module)])
                        ELSE tgt]
        Lookup(selected, module, method, implementations, implementName) ==
            Result(selected, module, method, implementName,
                   IF Truthy(implementName)
                   THEN Member(implementations[implementName.s], method)
                   ELSE Null)
        Resolve(selected, module, implementations) ==
            Lookup(selected, module, GetProp(selected.descriptor, "method"), implementations,
                   FindImplementation(implementations, module))
        Select(selected) ==
            IF selected.threw THEN selected
            ELSE IF selected.direct
            THEN [threw |-> FALSE, handler |-> tgt, args |-> <<>>, warning |-> Undefined,
                  target |-> tgt]
            ELSE IF GetProp(selected.descriptor, "module").t # "string"
            THEN Throw("_target.module.replace is not a function")
            ELSE Resolve(selected,
                         StripTail(variant.tailPattern, GetProp(selected.descriptor, "module").s),
                         GetProp(_api, "runtime")[variant.collectionPluralName])
    IN  IF ~Truthy(_api) \/ Typeof(_api) # "object" \/ ~Truthy(GetProp(_api, "runtime"))
        THEN Throw("invalid type of API")
        ELSE Select(SelectTarget(tgt))

----------------------------------------------------------------------------
(* Route constructor *)

\* this._isValid()
_isValid(handler) == Typeof(handler) = "function"

\* new <variant>( source, target, _api )
Construct(variant, src, tgt, _api) ==
    LET Define(compiledSource, compiledTarget) ==
            IF compiledSource.threw THEN [route |-> compiledSource, target |-> tgt]
            ELSE IF compiledTarget.threw THEN [route |-> compiledTarget, target |-> tgt]
            ELSE [route |-> [threw |-> FALSE,
                             class |-> variant.class,
                             source |-> src,
                             target |-> compiledTarget.target,
                             method |-> compiledSource.method,
                             path |-> compiledSource.definition,
                             prefix |-> compiledSource.prefix,
                             pattern |-> compiledSource.pattern,
                             parameters |-> compiledSource.parameters,
                             compile |-> compiledSource.render,
                             handler |-> compiledTarget.handler,
                             args |-> compiledTarget.args,
                             warning |-> IF Truthy(compiledTarget.warning)
                                         THEN compiledTarget.warning
                                         ELSE Null,
                             isValid |-> _isValid(compiledTarget.handler)],
                  target |-> compiledTarget.target]
    IN  Define(parseSource(src, variant.isMatchingPrefix), parseTarget(variant, tgt, _api))

----------------------------------------------------------------------------
(* Route#selectProbablyCoveredPrefixes                                       *)
(*                                                                          *)
(* A regular expression of path-to-regexp is kept as the tokens it is built *)
(* from and its anchoring.  Matching yields the ends of all matches in the  *)
(* order a backtracking matcher tries them; the first one is the match.     *)
(* A pattern is either the default one or a sequence of word characters and *)
(* dots.                                                                    *)

MATCH_PARTIAL == 1

MATCH_FULL == 2

IsDelimiter(c) == c \in {"/", "#", "?"}

\* the ends of a text that starts behind position p
TextEnds(text, str, p) ==
    IF p + Len(text) <= Len(str) /\ SubSeq(str, p + 1, p + Len(text)) = text
    THEN << p + Len(text) >>
    ELSE <<>>

\* the position behind the characters other than delimiters that start behind p
RECURSIVE RunEnd(_, _)
RunEnd(str, p) ==
    IF p < Len(str) /\ ~IsDelimiter(str[p + 1]) THEN RunEnd(str, p + 1) ELSE p

\* the ends of a pattern that starts behind position p
PatternEnds(pattern, str, p) ==
    CASE pattern = <<>> -> << p >>
      [] pattern = DefaultPattern ->
            [k \in 1..(RunEnd(str, p) - p) |-> p + k]
      [] pattern # <<>> /\ \A i \in 1..Len(pattern) : IsWordChar(pattern[i]) \/ pattern[i] = "." ->
            IF /\ p + Len(pattern) <= Len(str)
               /\ \A i \in 1..Len(pattern) : pattern[i] \in {".", str[p + i]}
            THEN << p + Len(pattern) >>
            ELSE <<>>

\* the ends of what follows, for every start of a list
RECURSIVE PatternEach(_, _, _)
PatternEach(pattern, str, starts) ==
    IF starts = <<>> THEN <<>>
    ELSE PatternEnds(pattern, str, Head(starts)) \o PatternEach(pattern, str, Tail(starts))

RECURSIVE TextEach(_, _, _)
TextEach(text, str, starts) ==
    IF starts = <<>> THEN <<>>
    ELSE TextEnds(text, str, Head(starts)) \o TextEach(text, str, Tail(starts))

\* (?:lit(?:pattern))* behind position p, as many repetitions as possible first
RECURSIVE StarEnds(_, _, _, _)
RECURSIVE StarEach(_, _, _, _, _)
StarEnds(lit, pattern, str, p) ==
    StarEach(lit, pattern, str, PatternEach(pattern, str, TextEnds(lit, str, p)), p) \o << p >>

StarEach(lit, pattern, str, ends, p) ==
    IF ends = <<>> THEN <<>>
    ELSE (IF Head(ends) > p THEN StarEnds(lit, pattern, str, Head(ends)) ELSE <<>>)
            \o StarEach(lit, pattern, str, Tail(ends), p)

RECURSIVE StarAll(_, _, _, _)
StarAll(lit, pattern, str, starts) ==
    IF starts = <<>> THEN <<>>
    ELSE StarEnds(lit, pattern, str, Head(starts)) \o StarAll(lit, pattern, str, Tail(starts))

\* the part of the expression tokensToRegexp writes for a key
KeyEnds(token, str, p) ==
    LET Once == TextEach(token.suffix, str,
                    PatternEach(token.pattern, str, TextEnds(token.prefix, str, p)))
        Many == TextEach(token.suffix, str,
                    StarAll(token.suffix \o token.prefix, token.pattern, str,
                        PatternEach(token.pattern, str, TextEnds(token.prefix, str, p))))
    IN  CASE token.modifier = <<>> -> Once
          [] token.modifier = << "?" >> -> Once \o << p >>
          [] token.modifier = << "+" >> -> Many
          [] token.modifier = << "*" >> -> Many \o << p >>

TokenEnds(token, str, p) ==
    IF token.kind = "text" THEN TextEnds(token.text, str, p) ELSE KeyEnds(token, str, p)

RECURSIVE TokenEach(_, _, _)
TokenEach(token, str, starts) ==
    IF starts = <<>> THEN <<>>
    ELSE TokenEnds(token, str, Head(starts)) \o TokenEach(token, str, Tail(starts))

RECURSIVE TokensEach(_, _, _, _)
TokensEach(tokens, k, str, starts) ==
    IF k > Len(tokens) THEN starts
    ELSE TokensEach(tokens, k + 1, str, TokenEach(tokens[k], str, starts))

\* [\/#\?]? behind every start of a list
RECURSIVE DelimiterEach(_, _)
DelimiterEach(str, starts) ==
    IF starts = <<>> THEN <<>>
    ELSE (IF Head(starts) < Len(str) /\ IsDelimiter(str[Head(starts) + 1])
          THEN << Head(starts) + 1, Head(starts) >>
          ELSE << Head(starts) >>)
            \o DelimiterEach(str, Tail(starts))

\* (?:[\/#\?](?=$))? and, unless the tokens end in a delimiter, (?=[\/#\?]|$)
\* behind every start of a list: the end of an expression matching prefixes
RECURSIVE OpenEach(_, _, _)
OpenEach(str, isEndDelimited, starts) ==
    LET Ahead(p) == isEndDelimited \/ p = Len(str) \/ IsDelimiter(str[p + 1])
        Tried(ends) == SelectSeq(ends, Ahead)
        From(p) ==
            IF p + 1 = Len(str) /\ IsDelimiter(str[p + 1]) THEN << p + 1, p >> ELSE << p >>
    IN  IF starts = <<>> THEN <<>>
        ELSE Tried(From(Head(starts))) \o OpenEach(str, isEndDelimited, Tail(starts))

IsEndDelimited(tokens) ==
    \/ tokens = <<>>
    \/ /\ tokens[Len(tokens)].kind = "text"
       /\ IsDelimiter(tokens[Len(tokens)].text[Len(tokens[Len(tokens)].text)])

\* the expression tokensToRegexp builds with strict: false; dollar tells that
\* its source ends with $
tokensToRegexp(tokens, end) == [tokens |-> tokens, end |-> end, dollar |-> end]

\* CoverPattern taking the matching mode of the route's own pattern
CoverPattern_OwnMode(this) == tokensToRegexp(parse(this.path).tokens, this.pattern.end)

\* Parser( this.path, dummy, { sensitive: true, strict: false } )
CoverPattern(this) == tokensToRegexp(parse(this.path).tokens, TRUE)

\* the expression left as it is
StripAnchor_Kept(pattern) == pattern

\* new RegExp( myPattern.source.replace( /\$$/, "" ) )
StripAnchor(pattern) == [pattern EXCEPT !.dollar = FALSE]

\* myPattern.exec( str ): the end of the match, -1 without a match
exec(pattern, str) ==
    LET First(ends) == IF ends = <<>> THEN -1 ELSE Head(ends)
        Anchored(ends) ==
            IF pattern.dollar THEN SelectSeq(ends, LAMBDA e : e = Len(str)) ELSE ends
        Closed(ends) ==
            IF pattern.end THEN Anchored(DelimiterEach(str, ends))
            ELSE OpenEach(str, IsEndDelimited(pattern.tokens), ends)
    IN  First(Closed(TokensEach(pattern.tokens, 1, str, << 0 >>)))

\* covered[key] = value on an object kept as its properties in insertion order
SetProperty(covered, key, value) ==
    IF \E i \in 1..Len(covered) : covered[i].key = key
    THEN [i \in 1..Len(covered) |->
            IF covered[i].key = key THEN [key |-> key, value |-> value] ELSE covered[i]]
    ELSE Append(covered, [key |-> key, value |-> value])

\* the loop over the options, from option oi on
RECURSIVE CoverLoop(_, _, _, _)
CoverLoop(pattern, items, oi, covered) ==
    LET Marked(end) ==
            IF end = -1 THEN covered
            ELSE SetProperty(covered, items[oi].s,
                        IF end = Len(items[oi].s) THEN MATCH_FULL ELSE MATCH_PARTIAL)
    IN  IF oi > Len(items) THEN covered
        ELSE CoverLoop(pattern, items, oi + 1, Marked(exec(pattern, items[oi].s)))

selectProbablyCoveredPrefixes(this, options) ==
    IF \/ ~IsArray(options)
       \/ \E i \in 1..Len(options.items) :
            Typeof(options.items[i]) # "string" \/ Len(trim(options.items[i].s)) < 1
    THEN Throw("invalid set of options to filter")
    ELSE [threw |-> FALSE,
          covered |-> CoverLoop(StripAnchor(CoverPattern(this)), options.items, 1, <<>>)]

----------------------------------------------------------------------------
(* lib/router/normalize/definition.js                                       *)
(*                                                                          *)
(* A Map is the sequence of its entries in insertion order.  A plain object *)
(* of routes or stages is a Dict: its own keys in enumeration order and     *)
(* their values.                                                            *)

EARLY == << "e", "a", "r", "l", "y" >>

BEFORE == << "b", "e", "f", "o", "r", "e" >>

AFTER == << "a", "f", "t", "e", "r" >>

LATE == << "l", "a", "t", "e" >>

MapHas(entries, key) == \E i \in 1..Len(entries) : entries[i].key = key

MapGet(entries, key) == entries[CHOOSE i \in 1..Len(entries) : entries[i].key = key].value

MapSet(entries, key, value) ==
    IF MapHas(entries, key)
    THEN [i \in 1..Len(entries) |->
            IF entries[i].key = key THEN [key |-> key, value |-> value] ELSE entries[i]]
    ELSE Append(entries, [key |-> key, value |-> value])

DictHas(dict, name) == dict.t = "dict" /\ \E i \in 1..Len(dict.keys) : dict.keys[i] = name

DictGet(dict, name) == dict.vals[CHOOSE i \in 1..Len(dict.keys) : dict.keys[i] = name]

\* the body of the if ( mapping.has( source ) ) ... else ... of the array branch
Accumulate(entries, src, tgt) ==
    LET Merge(existing) ==
            IF IsArray(src)
            THEN IF IsArray(existing)
                 THEN [threw |-> FALSE,
                       entries |-> MapSet(entries, src, Arr(Append(existing.items, tgt)))]
                 ELSE Throw("existing.push is not a function")
            ELSE [threw |-> FALSE,
                  entries |-> MapSet(entries, src, Arr(<< existing, tgt >>))]
    IN  IF MapHas(entries, src)
        THEN Merge(MapGet(entries, src))
        ELSE [threw |-> FALSE, entries |-> MapSet(entries, src, tgt)]

\* `${_source.type} ${_source.url}`
BareKey(pre) == pre.type \o << " " >> \o pre.url

\* `${source.type} ${source.exact ? "=" : ""}${source.prefix ? "~" : ""}${source.url}`
ObjectKey(pre) ==
    pre.type \o << " " >> \o (IF pre.exact THEN << "=" >> ELSE <<>>)
             \o (IF pre.prefix THEN << "~" >> ELSE <<>>) \o pre.url

\* the loop of the array branch of _normalizeSet, from item i on
RECURSIVE ArrayLoop(_, _, _)
ArrayLoop(items, i, entries) ==
    LET Continue(next) ==
            IF next.threw THEN next ELSE ArrayLoop(items, i + 1, next.entries)
        Bare(_source) ==
            IF _source.threw THEN _source
            ELSE Continue(Accumulate(entries, Str(BareKey(_source)), items[i]))
    IN  IF i > Len(items) THEN [threw |-> FALSE, value |-> MapOf(entries)]
        ELSE IF IsArray(items[i])
        THEN IF Len(items[i].items) = 2
             THEN Continue(Accumulate(entries, items[i].items[1], items[i].items[2]))
             ELSE Throw("invalid array-based definition of a route")
        ELSE Bare(preparseSource(items[i]))

\* the loop of the object branch of _normalizeSet, from key i on
RECURSIVE ObjectLoop(_, _, _)
ObjectLoop(dict, i, entries) ==
    LET Put(src) ==
            IF src.threw THEN src
            ELSE ObjectLoop(dict, i + 1, MapSet(entries, Str(ObjectKey(src)), dict.vals[i]))
    IN  IF i > Len(dict.keys) THEN [threw |-> FALSE, value |-> MapOf(entries)]
        ELSE Put(preparseSource(Str(dict.keys[i])))

\* _normalizeSet without the test for a Map: a Map is taken as an object
\* without properties of its own
_normalizeSet_MapRebuilt(rawSetOfRoutes) ==
    IF ~Truthy(rawSetOfRoutes) THEN [threw |-> FALSE, value |-> MapOf(<<>>)]
    ELSE IF rawSetOfRoutes.t = "map" THEN [threw |-> FALSE, value |-> MapOf(<<>>)]
    ELSE IF IsArray(rawSetOfRoutes) THEN ArrayLoop(rawSetOfRoutes.items, 1, <<>>)
    ELSE IF rawSetOfRoutes.t = "dict" THEN ObjectLoop(rawSetOfRoutes, 1, <<>>)
    ELSE Throw("invalid list of raw routing definitions")

_normalizeSet(rawSetOfRoutes) ==
    IF ~Truthy(rawSetOfRoutes) THEN [threw |-> FALSE, value |-> MapOf(<<>>)]
    ELSE IF rawSetOfRoutes.t = "map" THEN [threw |-> FALSE, value |-> rawSetOfRoutes]
    ELSE IF IsArray(rawSetOfRoutes) THEN ArrayLoop(rawSetOfRoutes.items, 1, <<>>)
    ELSE IF rawSetOfRoutes.t = "dict" THEN ObjectLoop(rawSetOfRoutes, 1, <<>>)
    ELSE Throw("invalid list of raw routing definitions")

\* the names for ( const name in rawDefinition ) visits and hasOwnProperty accepts
OwnKeys(rawDefinition) == IF rawDefinition.t = "dict" THEN rawDefinition.keys ELSE <<>>

\* let toCheck = 5
ToCheck == 5

\* ScanName never flagging early and late as unexpected
ScanName_NothingUnexpected(state, name, supportAllStages) ==
    IF name = EARLY \/ name = LATE \/ name = BEFORE \/ name = AFTER
    THEN [state EXCEPT !.foundExplicit = TRUE]
    ELSE [state EXCEPT !.explicit = FALSE]

\* the switch ( name ) of the loop over the names of the raw definition
ScanName(state, name, supportAllStages) ==
    IF name = EARLY \/ name = LATE
    THEN [state EXCEPT !.foundExplicit = TRUE,
                       !.unexpectedStages = state.unexpectedStages \/ ~supportAllStages]
    ELSE IF name = BEFORE \/ name = AFTER
    THEN [state EXCEPT !.foundExplicit = TRUE]
    ELSE [state EXCEPT !.explicit = FALSE]

\* the loop over the names of the raw definition, from name i on
RECURSIVE ScanNames(_, _, _, _)
ScanNames(names, i, state, supportAllStages) ==
    IF i > Len(names) \/ state.toCheck < 1 THEN state
    ELSE ScanNames(names, i + 1,
                   ScanName([state EXCEPT !.toCheck = state.toCheck - 1], names[i],
                            supportAllStages),
                   supportAllStages)

\* the stages of a result
StagesOf(supportAllStages) ==
    IF supportAllStages THEN << "early", "before", "after", "late" >> ELSE << "before", "after" >>

StageName(stage) ==
    CASE stage = "early" -> EARLY
      [] stage = "before" -> BEFORE
      [] stage = "after" -> AFTER
      [] stage = "late" -> LATE

\* the table of an explicit definition: every stage the definition has, normalised
ExplicitTable(supportAllStages, rawDefinition) ==
    LET stages == StagesOf(supportAllStages)
        Table(sets) ==
            LET failed == {i \in 1..Len(stages) : sets[i].threw}
                Stage(name) == sets[CHOOSE i \in 1..Len(stages) : stages[i] = name].value
            IN  IF failed # {} THEN sets[MinOf(failed)]
                ELSE IF supportAllStages
                THEN [threw |-> FALSE,
                      value |-> Obj([early |-> Stage("early"), before |-> Stage("before"),
                                     after |-> Stage("after"), late |-> Stage("late")])]
                ELSE [threw |-> FALSE,
                      value |-> Obj([before |-> Stage("before"), after |-> Stage("after")])]
    IN  Table([i \in 1..Len(stages) |->
                IF DictHas(rawDefinition, StageName(stages[i]))
                THEN _normalizeSet(DictGet(rawDefinition, StageName(stages[i])))
                ELSE [threw |-> FALSE, value |-> MapOf(<<>>)]])

\* ImplicitTable returning two stages whatever stages the caller supports
ImplicitTable_TwoStages(supportAnyStage, supportAllStages, rawDefinition) ==
    LET Table(set) ==
            IF set.threw THEN set
            ELSE [threw |-> FALSE,
                  value |-> Obj([before |-> set.value, after |-> MapOf(<<>>)])]
    IN  Table(_normalizeSet(IF Truthy(rawDefinition) THEN rawDefinition ELSE Dict(<<>>, <<>>)))

\* the final return of _normalizeDefinition: the whole definition as one set
ImplicitTable(supportAnyStage, supportAllStages, rawDefinition) ==
    LET Table(set) ==
            IF set.threw THEN set
            ELSE IF ~supportAnyStage THEN set
            ELSE IF supportAllStages
            THEN [threw |-> FALSE,
                  value |-> Obj([early |-> MapOf(<<>>), before |-> set.value,
                                 after |-> MapOf(<<>>), late |-> MapOf(<<>>)])]
            ELSE [threw |-> FALSE,
                  value |-> Obj([before |-> set.value, after |-> MapOf(<<>>)])]
    IN  Table(_normalizeSet(IF Truthy(rawDefinition) THEN rawDefinition ELSE Dict(<<>>, <<>>)))

_normalizeDefinition(supportAnyStage, supportAllStages, rawDefinition) ==
    LET start == [toCheck |-> ToCheck, explicit |-> supportAnyStage,
                  foundExplicit |-> FALSE, unexpectedStages |-> FALSE]
        Decide(scan) ==
            IF supportAnyStage /\ scan.foundExplicit /\ ~scan.explicit
            THEN Throw("invalid mix of routing definitions with and without routing slot selection")
            ELSE IF ~scan.explicit
            THEN ImplicitTable(supportAnyStage, supportAllStages, rawDefinition)
            ELSE IF scan.unexpectedStages
            THEN Throw("got one or more unexpected stages in route definition")
            ELSE ExplicitTable(supportAllStages, rawDefinition)
    IN  IF Typeof(rawDefinition) = "object"
        THEN IF Truthy(rawDefinition) /\ ~IsArray(rawDefinition)
             THEN Decide(IF supportAnyStage
                         THEN ScanNames(OwnKeys(rawDefinition), 1, start, supportAllStages)
                         ELSE start)
             ELSE ImplicitTable(supportAnyStage, supportAllStages, rawDefinition)
        ELSE IF Typeof(rawDefinition) = "undefined"
        THEN ImplicitTable(supportAnyStage, supportAllStages, rawDefinition)
        ELSE Throw("invalid route definition")

\* module.exports
Plugin(rawDefinition) == _normalizeDefinition(TRUE, FALSE, rawDefinition)

Custom(rawDefinition) == _normalizeDefinition(TRUE, TRUE, rawDefinition)

Blueprint(rawDefinition) == _normalizeDefinition(FALSE, FALSE, rawDefinition)

----------------------------------------------------------------------------
(* Route#generateExamples                                                    *)
(*                                                                          *)
(* A character drawn with Math.random() is kept as RandomChar, which stands *)
(* for the drawn character in its encoded form, whichever it is.            *)

RandomChar == "random"

\* String( value )
RECURSIVE Join(_, _)
Join(items, i) ==
    IF i > Len(items) THEN <<>>
    ELSE (IF i > 1 THEN << "," >> ELSE <<>>)
            \o (IF items[i].t = "string" THEN items[i].s ELSE <<>>)
            \o Join(items, i + 1)

StringOf(value) ==
    CASE value.t = "string" -> value.s
      [] value.t = "array" -> Join(value.items, 1)
      [] value.t = "null" -> << "n", "u", "l", "l" >>
      [] value.t = "undefined" -> << "u", "n", "d", "e", "f", "i", "n", "e", "d" >>

\* encodeURIComponent( str )
Escapes ==
    [c \in {"/", ":", ",", "?", "#", " ", "=", "+", "%"} |->
        CASE c = "/" -> << "%", "2", "F" >>
          [] c = ":" -> << "%", "3", "A" >>
          [] c = "," -> << "%", "2", "C" >>
          [] c = "?" -> << "%", "3", "F" >>
          [] c = "#" -> << "%", "2", "3" >>
          [] c = " " -> << "%", "2", "0" >>
          [] c = "=" -> << "%", "3", "D" >>
          [] c = "+" -> << "%", "2", "B" >>
          [] c = "%" -> << "%", "2", "5" >>]

RECURSIVE encodeURIComponent(_)
encodeURIComponent(str) ==
    IF str = <<>> THEN <<>>
    ELSE (IF \/ IsWordChar(Head(str))
             \/ Head(str) \in {"-", ".", "!", "~", "*", "'", "(", ")", RandomChar}
          THEN << Head(str) >>
          ELSE Escapes[Head(str)])
            \o encodeURIComponent(Tail(str))

\* values[name] of an object kept as its properties in insertion order
Lookup(values, name) ==
    IF \E i \in 1..Len(values) : values[i].key = name
    THEN values[CHOOSE i \in 1..Len(values) : values[i].key = name].value
    ELSE Undefined

\* matches[i].test( segment ) with ^(?:pattern)$
Validate(pattern, segment) ==
    \E i \in 1..Len(PatternEnds(pattern, segment, 0)) :
        PatternEnds(pattern, segment, 0)[i] = Len(segment)

\* the segments of a repeated parameter, from item j on
RECURSIVE RenderItems(_, _, _)
RenderItems(token, items, j) ==
    LET Rest(segment, rest) ==
            IF ~Validate(token.pattern, segment) THEN Throw("Expected all to match")
            ELSE IF rest.threw THEN rest
            ELSE [threw |-> FALSE, path |-> token.prefix \o segment \o token.suffix \o rest.path]
    IN  IF j > Len(items) THEN [threw |-> FALSE, path |-> <<>>]
        ELSE Rest(encodeURIComponent(StringOf(items[j])), RenderItems(token, items, j + 1))

\* this.compile( values ): the function Compiler returned, from token k on
RECURSIVE RenderLoop(_, _, _, _)
RenderLoop(tokens, k, values, path) ==
    LET optional == tokens[k].modifier \in {<< "?" >>, << "*" >>}
        repeat == tokens[k].modifier \in {<< "*" >>, << "+" >>}
        Listed(rendered) ==
            IF rendered.threw THEN rendered
            ELSE RenderLoop(tokens, k + 1, values, path \o rendered.path)
        Single(segment) ==
            IF ~Validate(tokens[k].pattern, segment) THEN Throw("Expected to match")
            ELSE RenderLoop(tokens, k + 1, values,
                            path \o tokens[k].prefix \o segment \o tokens[k].suffix)
        Valued(value) ==
            IF IsArray(value)
            THEN IF ~repeat THEN Throw("Expected to not repeat, but got an array")
                 ELSE IF Len(value.items) = 0
                 THEN IF optional THEN RenderLoop(tokens, k + 1, values, path)
                      ELSE Throw("Expected to not be empty")
                 ELSE Listed(RenderItems(tokens[k], value.items, 1))
            ELSE IF Typeof(value) \in {"string", "number"}
            THEN Single(encodeURIComponent(StringOf(value)))
            ELSE IF optional THEN RenderLoop(tokens, k + 1, values, path)
            ELSE Throw("Expected to be a string or an array")
    IN  IF k > Len(tokens) THEN [threw |-> FALSE, path |-> path]
        ELSE IF tokens[k].kind = "text"
        THEN RenderLoop(tokens, k + 1, values, path \o tokens[k].text)
        ELSE Valued(Lookup(values, tokens[k].name))

Apply(compile, values) == RenderLoop(compile.tokens, 1, values, <<>>)

\* the number of repetitions examples cover at most
MaxRepetitions == 3

\* the value used for a parameter instead of random characters
CustomValue(parameter, customValues, options) ==
    IF options.useNames
    THEN IF parameter.numbered
         THEN Str(<< ":", "n", "u", "m", "b", "e", "r", "e", "d" >> \o parameter.name \o << "*" >>)
         ELSE Str(<< ":" >> \o parameter.name)
    ELSE IF Truthy(options.fixValue) THEN options.fixValue
    ELSE DictGet(customValues, parameter.name)

\* one pass of the loop calculating the size of the list of examples
Counts(parameter, customValues, options) ==
    LET repeat == parameter.modifier \in {<< "*" >>, << "+" >>}
        hasCustom == \/ options.useNames
                     \/ Truthy(options.fixValue)
                     \/ DictHas(customValues, parameter.name)
        Info(value, min, max) ==
            [name |-> parameter.name,
             next |-> min,
             min |-> min,
             max |-> max,
             hasCustom |-> hasCustom,
             custom |-> IF hasCustom THEN value ELSE Null,
             repeat |-> repeat]
        Limited(value, min, max) ==
            IF options.minLengthOnly THEN Info(value, min, min)
            ELSE IF options.maxLengthOnly THEN Info(value, max, max)
            ELSE Info(value, min, max)
        Ranged(value) ==
            Limited(value,
                    IF /\ parameter.modifier \in {<< "?" >>, << "*" >>}
                       /\ \/ ~hasCustom
                          \/ ~Truthy(value)
                          \/ options.useNames
                          \/ Truthy(options.fixValue)
                    THEN 0 ELSE 1,
                    IF repeat
                    THEN IF hasCustom /\ IsArray(value) THEN Len(value.items) ELSE MaxRepetitions
                    ELSE 1)
    IN  Ranged(IF hasCustom THEN CustomValue(parameter, customValues, options) ELSE Undefined)

\* Product counting the maximum of every parameter only
RECURSIVE Product_OfMaxima(_, _)
Product_OfMaxima(counters, i) ==
    IF i > Len(counters) THEN 1
    ELSE (counters[i].max + 1) * Product_OfMaxima(counters, i + 1)

\* count after the loop calculating the size of the list of examples
RECURSIVE Product(_, _)
Product(counters, i) ==
    IF i > Len(counters) THEN 1
    ELSE (counters[i].max - counters[i].min + 1) * Product(counters, i + 1)

reverse(list) == [i \in 1..Len(list) |-> list[Len(list) + 1 - i]]

\* new Array( info.next ) filled with random characters
RandomValue(next) == Arr([vi \in 1..next |-> Str(<< RandomChar >>)])

\* the loop compiling the values of an example, from counter ci on
RECURSIVE ValuesLoop(_, _, _)
ValuesLoop(counters, ci, values) ==
    LET Included(info, value) ==
            IF info.repeat /\ IsArray(value) THEN value
            ELSE IF info.repeat THEN Arr(<< Str(StringOf(value)) >>)
            ELSE Str(StringOf(value))
        Chosen(info) ==
            IF info.hasCustom THEN info.custom ELSE RandomValue(info.next)
    IN  IF ci > Len(counters) THEN values
        ELSE IF counters[ci].next = 0 THEN ValuesLoop(counters, ci + 1, values)
        ELSE ValuesLoop(counters, ci + 1,
                        SetProperty(values, counters[ci].name,
                                    Included(counters[ci], Chosen(counters[ci]))))

\* NextCase with the overflow never carried to the next counter
RECURSIVE NextCase_NoCarry(_, _, _)
NextCase_NoCarry(counters, ci, overflow) ==
    IF ci > Len(counters) THEN counters
    ELSE IF counters[ci].next + 1 > counters[ci].max
    THEN [counters EXCEPT ![ci].next = counters[ci].min]
    ELSE [counters EXCEPT ![ci].next = counters[ci].next + 1]

\* the loop choosing the next case by updating the counters, from counter ci on
RECURSIVE NextCase(_, _, _)
NextCase(counters, ci, overflow) ==
    LET Raised(next) ==
            IF next > counters[ci].max
            THEN NextCase([counters EXCEPT ![ci].next = counters[ci].min], ci + 1, TRUE)
            ELSE NextCase([counters EXCEPT ![ci].next = next], ci + 1, FALSE)
    IN  IF ci > Len(counters) THEN counters
        ELSE Raised(IF overflow THEN counters[ci].next + 1 ELSE counters[ci].next)

----------------------------------------------------------------------------
(* The pattern of a route matching a path, and the values it captures.      *)
(*                                                                          *)
(* A way the tokens match is the list of the positions it reaches: the      *)
(* start, then the end of every token.  A key that took part has moved on,  *)
(* as no pattern matches the empty text; its capture is what lies between   *)
(* its prefix and its suffix.                                               *)

\* every way of a list continued by the ends of a token
RECURSIVE Extended(_, _, _)
Extended(token, str, runs) ==
    LET With(run, ends) == [i \in 1..Len(ends) |-> Append(run, ends[i])]
    IN  IF runs = <<>> THEN <<>>
        ELSE With(Head(runs), TokenEnds(token, str, Head(runs)[Len(Head(runs))]))
                \o Extended(token, str, Tail(runs))

\* the ways the tokens from token k on match, in the order a backtracking
\* matcher tries them
RECURSIVE TokensRuns(_, _, _, _)
TokensRuns(tokens, k, str, runs) ==
    IF k > Len(tokens) THEN runs
    ELSE TokensRuns(tokens, k + 1, str, Extended(tokens[k], str, runs))

\* the end of the expression behind the last token ending at p: the end of
\* the match, -1 if there is none
Closing(pattern, str, p) ==
    LET First(ends) == IF ends = <<>> THEN -1 ELSE Head(ends)
        Anchored(ends) ==
            IF pattern.dollar THEN SelectSeq(ends, LAMBDA e : e = Len(str)) ELSE ends
    IN  First(IF pattern.end THEN Anchored(DelimiterEach(str, << p >>))
              ELSE OpenEach(str, IsEndDelimited(pattern.tokens), << p >>))

\* the first way of a list the expression can be closed behind
RECURSIVE FirstRun(_, _, _)
FirstRun(pattern, str, runs) ==
    IF runs = <<>> THEN <<>>
    ELSE IF Closing(pattern, str, Head(runs)[Len(Head(runs))]) # -1 THEN Head(runs)
    ELSE FirstRun(pattern, str, Tail(runs))

\* the pieces of a text between the occurrences of a delimiter; a text without
\* delimiter is one piece
RECURSIVE Split(_, _, _)
Split(text, delimiter, piece) ==
    IF text = <<>> THEN << Str(piece) >>
    ELSE IF /\ delimiter # <<>>
            /\ Len(text) >= Len(delimiter)
            /\ SubSeq(text, 1, Len(delimiter)) = delimiter
    THEN << Str(piece) >> \o Split(SubSeq(text, Len(delimiter) + 1, Len(text)), delimiter, <<>>)
    ELSE Split(Tail(text), delimiter, Append(piece, Head(text)))

\* the values of the parameters a way of matching captures, from token k on:
\* a repeatable parameter split into its segments, an absent one omitted
RECURSIVE Captured(_, _, _, _, _)
Captured(tokens, k, str, run, values) ==
    LET Text(token) ==
            SubSeq(str, run[k] + Len(token.prefix) + 1, run[k + 1] - Len(token.suffix))
        Value(token) ==
            IF token.modifier \in {<< "*" >>, << "+" >>}
            THEN Arr(Split(Text(token), token.suffix \o token.prefix, <<>>))
            ELSE Str(Text(token))
    IN  IF k > Len(tokens) THEN values
        ELSE IF tokens[k].kind = "key" /\ tokens[k].pattern # <<>> /\ run[k + 1] > run[k]
        THEN Captured(tokens, k + 1, str, run,
                      SetProperty(values, tokens[k].name, Value(tokens[k])))
        ELSE Captured(tokens, k + 1, str, run, values)

\* the expression path-to-regexp builds for Parser( url, parameters, { end } )
RegExpOf(pattern) == tokensToRegexp(parse(pattern.path).tokens, pattern.end)

\* this.pattern.exec( str ): the end of the text the tokens matched, the end
\* of the whole match and the values captured
Match(pattern, str) ==
    LET Found(regexp, run) ==
            IF run = <<>> THEN [matched |-> FALSE]
            ELSE [matched |-> TRUE,
                  inner |-> run[Len(run)],
                  end |-> Closing(regexp, str, run[Len(run)]),
                  values |-> Captured(regexp.tokens, 1, str, run, <<>>)]
        Run(regexp) ==
            Found(regexp, FirstRun(regexp, str, TokensRuns(regexp.tokens, 1, str, << << 0 >> >>)))
    IN  Run(RegExpOf(pattern))

\* decodeURIComponent( str ) of a text encodeURIComponent has written
RECURSIVE decodeURIComponent(_)
decodeURIComponent(str) ==
    LET Coded(c) == Len(str) >= 3 /\ SubSeq(str, 1, 3) = Escapes[c]
    IN  IF str = <<>> THEN <<>>
        ELSE IF \E c \in DOMAIN Escapes : Coded(c)
        THEN << CHOOSE c \in DOMAIN Escapes : Coded(c) >>
                \o decodeURIComponent(SubSeq(str, 4, Len(str)))
        ELSE << Head(str) >> \o decodeURIComponent(Tail(str))

----------------------------------------------------------------------------
(* Inputs of the route compiler *)

SourceList ==
    << Str(<< "/", "a" >>),    \* "/a"
       Str(<< "G", "E", "T", " ", "/", "a" >>),    \* "GET /a"
       Str(<< "g", "e", "t", " ", "/", "a" >>),    \* "get /a"
       Str(<< "*", " ", "/", "a" >>),    \* "* /a"
       Str(<< "~", "/", "a" >>),    \* "~/a"
       Str(<< "=", "/", "a" >>),    \* "=/a"
       Str(<< "p", "u", "t", " ", "~", "/", "a" >>),    \* "put ~/a"
       Str(<< "x", "-", "y", " ", "=", "/", "a", "/", ":", "i", "d" >>),    \* "x-y =/a/:id"
       Str(<< " ", "/", "a", "/", " " >>),    \* " /a/ "
       Str(<< "/", "a", "(", "b", ")", "?" >>),    \* "/a(b)?"
       Str(<< "/", "a", "b", "?" >>),    \* "/ab?"
       Str(<< "/", ":", "i", "d" >>),    \* "/:id"
       Str(<< "G", "E", "T", " ", "/", "a", " ", "=", ">", " ", "J", "o", "b" >>),    \* "GET /a => Job"
       Obj([url |-> Str(<< "/", "a" >>)]),    \* { url: "/a" }
       Obj([type |-> Str(<< "g", "e", "t" >>), url |-> Str(<< "=", "/", "a" >>)]),    \* { type: "get", url: "=/a" }
       Obj([type |-> Str(<< "*" >>), url |-> Str(<< "~", " ", "/", "a" >>)]),    \* { type: "*", url: "~ /a" }
       Obj([type |-> Undefined, url |-> Str(<< "/", "a" >>)]),    \* { type: undefined, url: "/a" }
       Obj([type |-> Num(1), url |-> Str(<< "/", "a" >>)]),    \* { type: 1, url: "/a" }
       Obj([url |-> Str(<< " " >>)]),    \* { url: " " }
       Obj([method |-> Str(<< "G", "E", "T" >>)]),    \* { method: "GET" }
       Str(<<>>),    \* ""
       Str(<< "a" >>),    \* "a"
       Str(<< "G", " ", "/", "a" >>),    \* "G /a"
       Str(<< "/", "/", "a" >>),    \* "//a"
       Str(<< "/", ":" >>),    \* "/:"
       Str(<< "/", "(", ")" >>),    \* "/()"
       Num(1),    \* 1
       Null,    \* null
       Arr(<<>>) >>    \* []

TargetList ==
    << Str(<< "J", "o", "b", ":", ":", "r", "u", "n" >>),    \* "Job::run"
       Str(<< "J", "o", "b", ".", "r", "u", "n" >>),    \* "Job.run"
       Str(<< "J", "o", "b", "#", "r", "u", "n" >>),    \* "Job#run"
       Str(<< "J", "o", "b" >>),    \* "Job"
       Str(<< "j", "o", "b" >>),    \* "job"
       Str(<< "J", "o", "b", "C", "o", "n", "t", "r", "o", "l", "l", "e", "r", ":", ":", "r", "u", "n" >>),    \* "JobController::run"
       Str(<< "j", "o", "b", "C", "O", "N", "T", "R", "O", "L", "L", "E", "R" >>),    \* "jobCONTROLLER"
       Str(<< "J", "o", "b", "P", "o", "l", "i", "c", "y", ":", ":", "r", "u", "n" >>),    \* "JobPolicy::run"
       Str(<< "J", "o", "b", ":", ":", "v", "e", "r" >>),    \* "Job::ver"
       Str(<< "J", "o", "b", ":", ":", "n", "o", "p", "e" >>),    \* "Job::nope"
       Str(<< "A", "c", "l", ":", ":", "r", "u", "n" >>),    \* "Acl::run"
       Str(<< "A", "c", "l", "P", "o", "l", "i", "c", "y", ".", "r", "u", "n" >>),    \* "AclPolicy.run"
       Str(<< "N", "i", "x", ":", ":", "r", "u", "n" >>),    \* "Nix::run"
       Str(<< "a", "-", "b", ":", ":", "r", "u", "n" >>),    \* "a-b::run"
       Str(<< "a", "-", "b" >>),    \* "a-b"
       Str(<< "a", "B", ":", ":", "r", "u", "n" >>),    \* "aB::run"
       Str(<< "/", "a", " ", "=", ">", " ", "J", "o", "b", ":", ":", "r", "u", "n" >>),    \* "/a => Job::run"
       Str(<< " ", "J", "o", "b", ":", ":", "r", "u", "n", " " >>),    \* " Job::run "
       Str(<<>>),    \* ""
       Str(<< " " >>),    \* " "
       Str(<< "J", "o", "b", ":", "r", "u", "n" >>),    \* "Job:run"
       Str(<< ":", ":", "r", "u", "n" >>),    \* "::run"
       Str(<< "J", "o", "b", ":", ":" >>),    \* "Job::"
       Fun("f1"),    \* function f1
       Obj([controller |-> Str(<< "J", "o", "b" >>), method |-> Str(<< "r", "u", "n" >>)]),    \* { controller: "Job", method: "run" }
       Obj([policy |-> Str(<< "A", "c", "l" >>), method |-> Str(<< "r", "u", "n" >>)]),    \* { policy: "Acl", method: "run" }
       Obj([module |-> Str(<< "J", "o", "b", "C", "o", "n", "t", "r", "o", "l", "l", "e", "r" >>), method |-> Str(<< "r", "u", "n" >>)]),    \* { module: "JobController", method: "run" }
       Obj([module |-> Str(<< "A", "c", "l", "P", "o", "l", "i", "c", "y" >>), method |-> Str(<< "r", "u", "n" >>), args |-> Arr(<< Num(1), Num(2) >>)]),    \* { module: "AclPolicy", method: "run", args: [ 1, 2 ] }
       Obj([controller |-> Str(<< "J", "o", "b" >>), method |-> Str(<< "r", "u", "n" >>), args |-> Num(5)]),    \* { controller: "Job", method: "run", args: 5 }
       Obj([controller |-> Str(<< "J", "o", "b" >>), method |-> Str(<< "v", "e", "r" >>)]),    \* { controller: "Job", method: "ver" }
       Obj([controller |-> Str(<< "J", "o", "b" >>), method |-> Str(<< "n", "o", "p", "e" >>)]),    \* { controller: "Job", method: "nope" }
       Obj([controller |-> Str(<< "N", "i", "x" >>), method |-> Str(<< "r", "u", "n" >>)]),    \* { controller: "Nix", method: "run" }
       Obj([module |-> Str(<< "a", "-", "b" >>), method |-> Str(<< "r", "u", "n" >>)]),    \* { module: "a-b", method: "run" }
       Obj([controller |-> Str(<< "J", "o", "b" >>)]),    \* { controller: "Job" }
       Obj([method |-> Str(<< "r", "u", "n" >>)]),    \* { method: "run" }
       Obj([module |-> Str(<<>>), method |-> Str(<< "r", "u", "n" >>)]),    \* { module: "", method: "run" }
       Obj([controller |-> Num(7), method |-> Str(<< "r", "u", "n" >>)]),    \* { controller: 7, method: "run" }
       Obj([other |-> Null]),    \* {}
       Arr(<<>>),    \* []
       Arr(<< Fun("f1") >>),    \* [ function f1 ]
       Arr(<< Str(<< "J", "o", "b", ":", ":", "r", "u", "n" >>) >>),    \* [ "Job::run" ]
       Arr(<< Str(<< "J", "o", "b" >>), Str(<< "r", "u", "n" >>) >>),    \* [ "Job", "run" ]
       Null,    \* null
       Undefined,    \* undefined
       Bool(FALSE),    \* false
       Bool(TRUE),    \* true
       Num(1),    \* 1
       Num(0) >>    \* 0

ApiList ==
    << \* the registry of the tests: controller Job, policy Acl
       Obj([runtime |-> [t |-> "runtime",
                          controllers |-> (<< "J", "o", "b" >> :> ((<< "r", "u", "n" >> :> Fun("controllers.Job.run")) @@ (<< "i", "n", "d", "e", "x" >> :> Fun("controllers.Job.index")) @@ (<< "v", "e", "r" >> :> Str(<< "1", ".", "0" >>)))),
                          policies |-> (<< "A", "c", "l" >> :> ((<< "r", "u", "n" >> :> Fun("policies.Acl.run")) @@ (<< "i", "n", "d", "e", "x" >> :> Fun("policies.Acl.index"))))]]),
       \* the same symbol in both collections
       Obj([runtime |-> [t |-> "runtime",
                          controllers |-> (<< "J", "o", "b" >> :> ((<< "r", "u", "n" >> :> Fun("controllers.Job.run")))) @@ (<< "A", "c", "l" >> :> ((<< "i", "n", "d", "e", "x" >> :> Fun("controllers.Acl.index")))),
                          policies |-> (<< "J", "o", "b" >> :> ((<< "r", "u", "n" >> :> Fun("policies.Job.run")) @@ (<< "i", "n", "d", "e", "x" >> :> Num(3)))) @@ (<< "A", "c", "l" >> :> ((<< "r", "u", "n" >> :> Fun("policies.Acl.run"))))]]),
       \* several spellings of one symbol, the literal one lacking run
       Obj([runtime |-> [t |-> "runtime",
                          controllers |-> (<< "a", "-", "b" >> :> ((<< "i", "n", "d", "e", "x" >> :> Fun("controllers.a-b.index")))) @@ (<< "A", "B" >> :> ((<< "r", "u", "n" >> :> Fun("controllers.AB.run")) @@ (<< "i", "n", "d", "e", "x" >> :> Fun("controllers.AB.index")))) @@ (<< "A", "-", "b" >> :> ((<< "r", "u", "n" >> :> Fun("controllers.A-b.run")))) @@ (<< "j", "o", "b" >> :> ((<< "i", "n", "d", "e", "x" >> :> Fun("controllers.job.index")))) @@ (<< "J", "o", "b" >> :> ((<< "r", "u", "n" >> :> Fun("controllers.Job.run")))),
                          policies |-> (<< "A", "B" >> :> ((<< "i", "n", "d", "e", "x" >> :> Fun("policies.AB.index")))) @@ (<< "A", "-", "b" >> :> ((<< "r", "u", "n" >> :> Fun("policies.A-b.run")) @@ (<< "i", "n", "d", "e", "x" >> :> Fun("policies.A-b.index"))))]]),
       \* symbols of the other collection only
       Obj([runtime |-> [t |-> "runtime",
                          controllers |-> (<< "A", "c", "l" >> :> ((<< "r", "u", "n" >> :> Fun("controllers.Acl.run")))) @@ (<< "A", "-", "b" >> :> ((<< "r", "u", "n" >> :> Fun("controllers.A-b.run")))),
                          policies |-> (<< "J", "o", "b" >> :> ((<< "r", "u", "n" >> :> Fun("policies.Job.run")) @@ (<< "i", "n", "d", "e", "x" >> :> Fun("policies.Job.index"))))]]),
       \* no runtime
       Obj([version |-> Str(<< "1" >>)]),
       \* undefined
       Undefined,
       \* null
       Null,
       \* a string
       Str(<< "a", "p", "i" >>) >>

----------------------------------------------------------------------------
(* Compiling routes *)

None == [threw |-> FALSE, class |-> "none"]

\* no call of generateExamples is in progress
Idle == [state |-> "idle"]

\* no server and no injector exist
Absent == [state |-> "absent"]

InitRoute ==
    /\ \E i \in 1..Len(ApiList) : api = ApiList[i]
    /\ \E i \in 1..Len(SourceList) : source = SourceList[i]
    /\ \E i \in 1..Len(TargetList) : target = TargetList[i]
    /\ call = [class |-> "none"]
    /\ route = None
    /\ raw = Undefined
    /\ table = None
    /\ job = Idle
    /\ server = Absent
    /\ injector = Absent

NewRoute(variant) ==
    LET made == Construct(variant, source, target, api)
    IN  /\ call' = [class |-> variant.class, source |-> source, target |-> target]
        /\ route' = made.route
        /\ target' = made.target
        /\ UNCHANGED <<api, source, raw, table, job, server, injector>>

NewTerminalRoute == NewRoute(TerminalRoute)

NewPolicyRoute == NewRoute(PolicyRoute)

NextRoute == NewTerminalRoute \/ NewPolicyRoute

SpecRoute == InitRoute /\ [][NextRoute]_vars

----------------------------------------------------------------------------
(* Inputs of the normalisers *)

StageKeys == << EARLY, BEFORE, AFTER, LATE >>

\* the names a plain-object definition is built from: the four stages, then
\* source addresses, some of them spellings of the same source
KeyPool ==
    << EARLY, BEFORE, AFTER, LATE,
       << "g", "e", "t", " ", "/", "a" >>,
       << "G", "E", "T", " ", "/", "a" >>,
       << "/", "b" >>,
       << "A", "L", "L", " ", "/", "b" >>,
       << "=", "/", "b" >>,
       << "p", "u", "t", " ", "~", "/", "c" >> >>

\* the value a plain-object definition holds under each name of KeyPool: a set
\* of routes under a stage, a target under a source address
ValuePool ==
    << Arr(<< Arr(<< Str(<< "/", "e" >>), Fun("early.e") >>) >>),
       Dict(<< << "g", "e", "t", " ", "/", "x" >>, << "/", "y" >> >>, << Fun("before.x"), Fun("before.y") >>),
       MapOf(<< [key |-> Str(<< "G", "E", "T", " ", "/", "z" >>), value |-> Fun("after.z")] >>),
       Undefined,
       Fun("t1"),
       Fun("t2"),
       Fun("t3"),
       Fun("t4"),
       Fun("t5"),
       Fun("t6") >>

RECURSIVE SubSeqsOf(_)
SubSeqsOf(a) ==
    IF a = <<>> THEN {<<>>}
    ELSE LET rest == SubSeqsOf(Tail(a))
         IN  rest \cup {<< Head(a) >> \o r : r \in rest}

RECURSIVE Merges(_, _)
Merges(a, b) ==
    IF a = <<>> THEN {b}
    ELSE IF b = <<>> THEN {a}
    ELSE {<< Head(a) >> \o m : m \in Merges(Tail(a), b)}
            \cup {<< Head(b) >> \o m : m \in Merges(a, Tail(b))}

\* selections of at most MaxKeys names of KeyPool: stages and sources each in
\* the order of the pool, interleaved in every way
KeySelections ==
    UNION {Merges(x, y) :
            <<x, y>> \in {p \in SubSeqsOf([i \in 1..Len(StageKeys) |-> i])
                                \X SubSeqsOf([i \in 1..(Len(KeyPool) - Len(StageKeys)) |-> Len(StageKeys) + i]) :
                            Len(p[1]) + Len(p[2]) <= MaxKeys}}

DictOf(selection) ==
    Dict([i \in 1..Len(selection) |-> KeyPool[selection[i]]],
         [i \in 1..Len(selection) |-> ValuePool[selection[i]]])

\* the items an array definition is built from
ItemPool ==
    << Arr(<< Str(<< "/", "a" >>), Fun("a1") >>),
       Arr(<< Str(<< "/", "a" >>), Fun("a2") >>),
       Arr(<< Str(<< "g", "e", "t", " ", "/", "a" >>), Fun("a3") >>),
       Str(<< "~", "/", "a" >>),
       Obj([type |-> Str(<< "g", "e", "t" >>), url |-> Str(<< "=", "/", "a" >>), controller |-> Str(<< "J", "o", "b" >>), method |-> Str(<< "r", "u", "n" >>)]),
       Arr(<< Str(<< "/", "a" >>), Fun("a6"), Fun("a7") >>),
       Num(1) >>

ItemSelections == UNION {[1..n -> 1..Len(ItemPool)] : n \in 0..MaxItems}

ArrayOf(selection) == Arr([i \in 1..Len(selection) |-> ItemPool[selection[i]]])

\* already normalised sets, and values that are no definition
OtherRawList ==
    << MapOf(<<>>),
       MapOf(<< [key |-> Str(<< "G", "E", "T", " ", "/", "a" >>), value |-> Fun("m1")] >>),
       MapOf(<< [key |-> Str(<< "A", "L", "L", " ", "~", "/", "b" >>), value |-> Arr(<< Fun("m2"), Fun("m3") >>)],
                [key |-> Str(<< "G", "E", "T", " ", "=", "/", "a" >>), value |-> Fun("m1")] >>),
       Undefined,
       Null,
       Num(5),
       Str(<< "/", "a" >>),
       Bool(TRUE),
       Fun("f") >>

----------------------------------------------------------------------------
(* Normalising routing definitions *)

InitNorm ==
    /\ \/ \E selection \in KeySelections : raw = DictOf(selection)
       \/ \E selection \in ItemSelections : raw = ArrayOf(selection)
       \/ \E i \in 1..Len(OtherRawList) : raw = OtherRawList[i]
    /\ call = [class |-> "none"]
    /\ table = None
    /\ api = Undefined
    /\ source = Undefined
    /\ target = Undefined
    /\ route = None
    /\ job = Idle
    /\ server = Absent
    /\ injector = Absent

Normalize(name, result) ==
    /\ call' = [class |-> name]
    /\ table' = result
    /\ UNCHANGED <<api, source, target, route, raw, job, server, injector>>

NormalizePlugin == Normalize("Plugin", Plugin(raw))

NormalizeCustom == Normalize("Custom", Custom(raw))

NormalizeBlueprint == Normalize("Blueprint", Blueprint(raw))

NextNorm == NormalizePlugin \/ NormalizeCustom \/ NormalizeBlueprint

SpecNorm == InitNorm /\ [][NextNorm]_vars

\* the definition a returned table is once it is handed to a normaliser: the
\* object of the stages with its properties in the order of their creation,
\* or the Map itself
AsDefinition(value) ==
    LET Stages(names) ==
            Dict([i \in 1..Len(names) |-> StageName(names[i])],
                 [i \in 1..Len(names) |-> value.props[names[i]]])
    IN  IF value.t = "object" THEN Stages(StagesOf("early" \in DOMAIN value.props))
        ELSE value

Normalizer(name, rawDefinition) ==
    CASE name = "Plugin" -> Plugin(rawDefinition)
      [] name = "Custom" -> Custom(rawDefinition)
      [] name = "Blueprint" -> Blueprint(rawDefinition)

\* the table the latest call returned is handed to the same normaliser
NormalizeAgain ==
    /\ call.class \in {"Plugin", "Custom", "Blueprint"}
    /\ ~table.threw
    /\ raw' = AsDefinition(table.value)
    /\ table' = Normalizer(call.class, AsDefinition(table.value))
    /\ call' = [class |-> call.class, returned |-> table.value]
    /\ UNCHANGED <<api, source, target, route, job, server, injector>>

NextAgain == NextNorm \/ NormalizeAgain

SpecAgain == InitNorm /\ [][NextAgain]_vars

----------------------------------------------------------------------------
(* lib/server/basic.js                                                       *)
(*                                                                          *)
(* The basic server from the moment server and Hitchy instance exist and    *)
(* the listeners of the server are registered.  A handler runs to its end   *)
(* before the next event is handled; a rejection handler runs before the    *)
(* next event, too.                                                         *)

MaxSignals == 3

\* state behind startedServer = server; startedHitchy = hitchy and the
\* registration of the listeners for error and close
Started ==
    [state |-> "started",
     startedServer |-> TRUE,
     startedHitchy |-> TRUE,
     stoppingServer |-> FALSE,    \* startedServer.$stoppingServer
     listening |-> FALSE,         \* startedServer.listening
     listened |-> FALSE,          \* the server has been listening
     closing |-> FALSE,           \* close() is called, close is not emitted yet
     closed |-> FALSE,            \* the server has emitted close
     onStarted |-> "pending",     \* hitchy.onStarted
     listen |-> "none",           \* server.listen(): none, requested, done, failed
     onError |-> TRUE,            \* server.once( "error", ... ) of the set-up
     onReject |-> FALSE,          \* server.once( "error", reject )
     onClose |-> TRUE,            \* server.once( "close", stopHitchy )
     onShutdownEvent |-> FALSE,   \* hitchy.api.once( "shutdown", ... )
     onCrashEvent |-> FALSE,      \* hitchy.api.once( "crash", ... )
     exitCode |-> 0,
     signals |-> 0,               \* signals received so far
     calls |-> 0,                 \* calls of stopRequestListener so far
     stops |-> <<>>,              \* calls of startedHitchy.stop() so far
     ticks |-> 0,                 \* process.nextTick( onShutdown ) pending
     shutdowns |-> 0]             \* invocations of onShutdown so far

\* stopHitchy(): every call of stop() is kept with what the server had done
\* by then
stopHitchy(s) ==
    IF s.startedHitchy
    THEN [s EXCEPT !.stops = Append(@, [listened |-> s.listened, closed |-> s.closed,
                                        settled |-> FALSE])]
    ELSE [s EXCEPT !.ticks = @ + 1]

stopRequestListener(s) ==
    IF s.startedServer /\ ~s.stoppingServer
    THEN IF s.listening
         THEN [s EXCEPT !.calls = @ + 1, !.stoppingServer = TRUE,
                        !.listening = FALSE, !.closing = TRUE]
         ELSE stopHitchy([s EXCEPT !.calls = @ + 1, !.stoppingServer = TRUE])
    ELSE stopHitchy([s EXCEPT !.calls = @ + 1])

\* the handler of the set-up for the server's error
ErrorHandler(s) ==
    IF s.onError
    THEN stopRequestListener([s EXCEPT !.onError = FALSE, !.exitCode = 2])
    ELSE s

\* reject as the server's error handler, and the catch behind prepared
RejectHandler(s) ==
    IF ~s.onReject THEN s
    ELSE IF s.listen = "requested"
    THEN stopRequestListener([s EXCEPT !.onReject = FALSE, !.listen = "failed",
                                       !.exitCode = 3])
    ELSE [s EXCEPT !.onReject = FALSE]

InitServer ==
    /\ server = Started
    /\ injector = Absent
    /\ api = Undefined
    /\ source = Undefined
    /\ target = Undefined
    /\ call = [class |-> "none"]
    /\ route = None
    /\ raw = Undefined
    /\ table = None
    /\ job = Idle

Handled(event, after) ==
    /\ server' = after
    /\ call' = [class |-> event]
    /\ UNCHANGED <<api, source, target, route, raw, table, job, injector>>

\* hitchy.onStarted is resolved
HitchyStarted ==
    /\ server.onStarted = "pending"
    /\ Handled("started", [server EXCEPT !.onStarted = "resolved",
                                         !.onShutdownEvent = TRUE,
                                         !.onCrashEvent = TRUE,
                                         !.listen = "requested",
                                         !.onReject = TRUE])

\* hitchy.onStarted is rejected
HitchyFailed ==
    /\ server.onStarted = "pending"
    /\ Handled("failed", stopRequestListener([server EXCEPT !.onStarted = "rejected",
                                                            !.exitCode = 3]))

\* the server emits listening
ServerListening ==
    /\ server.listen = "requested"
    /\ Handled("listening", [server EXCEPT !.listen = "done", !.listening = TRUE,
                                           !.listened = TRUE])

\* the server emits error
ServerError ==
    /\ server.listen \in {"requested", "done"}
    /\ server.onError \/ server.onReject
    /\ Handled("error", RejectHandler(ErrorHandler(server)))

\* the server emits close
ServerClose ==
    /\ server.closing
    /\ Handled("close",
               IF server.onClose
               THEN stopHitchy([server EXCEPT !.closing = FALSE, !.closed = TRUE,
                                              !.onClose = FALSE])
               ELSE [server EXCEPT !.closing = FALSE, !.closed = TRUE])

\* the process receives SIGINT or SIGTERM
Signal ==
    /\ server.signals < MaxSignals
    /\ \E name \in {"SIGINT", "SIGTERM"} :
        Handled(name, stopRequestListener([server EXCEPT !.signals = @ + 1]))

\* Hitchy emits shutdown
ShutdownEvent ==
    /\ server.onShutdownEvent
    /\ Handled("shutdown", stopRequestListener([server EXCEPT !.onShutdownEvent = FALSE]))

\* Hitchy emits crash
CrashEvent ==
    /\ server.onCrashEvent
    /\ Handled("crash", stopRequestListener([server EXCEPT !.onCrashEvent = FALSE,
                                                          !.exitCode = 4]))

\* the promise of a call of stop() is settled
StopSettled ==
    \E i \in 1..Len(server.stops) :
        /\ ~server.stops[i].settled
        /\ Handled("settled", [server EXCEPT !.stops[i].settled = TRUE, !.ticks = @ + 1])

\* the next tick invokes onShutdown
OnShutdown ==
    /\ server.ticks > 0
    /\ Handled("onShutdown", [server EXCEPT !.ticks = @ - 1, !.shutdowns = @ + 1])

NextServer ==
    \/ HitchyStarted
    \/ HitchyFailed
    \/ ServerListening
    \/ ServerError
    \/ ServerClose
    \/ Signal
    \/ ShutdownEvent
    \/ CrashEvent
    \/ StopSettled
    \/ OnShutdown

SpecServer == InitServer /\ [][NextServer]_vars

----------------------------------------------------------------------------
(* injector/connect.js                                                       *)
(*                                                                          *)
(* The middleware from the moment it is returned: the start-up of Hitchy is *)
(* pending, requests arrive and stop() is called at any time.               *)

MaxRequests == 2
MaxStops == 2

\* what the start-up is rejected with: an error, an error exposing the API
\* as its property hitchy, or no value at all
Causes ==
    {[kind |-> "Error", hitchy |-> FALSE],
     [kind |-> "Error", hitchy |-> TRUE],
     [kind |-> "undefined", hitchy |-> FALSE]}

NoCause == [kind |-> "null", hitchy |-> FALSE]

\* state behind let hitchy = null; let startupError = null and starter
Created ==
    [state |-> "created",
     starter |-> "pending",       \* the promise starter
     hitchy |-> "null",           \* null, undefined or api
     startupError |-> NoCause,
     requests |-> <<>>,           \* requests handled so far
     stops |-> <<>>]              \* calls of stop() so far

\* the handler of starter's rejection: reading a property of no value throws
\* after startupError is assigned
Rejected(i, cause) ==
    IF cause.kind = "undefined"
    THEN [i EXCEPT !.starter = "rejected", !.startupError = cause]
    ELSE [i EXCEPT !.starter = "rejected", !.startupError = cause,
                   !.hitchy = IF cause.hitchy THEN "api" ELSE "undefined"]

\* hitchyRequestHandler( req, res, next ) up to its return
hitchyRequestHandler(i) ==
    LET context == [phase |-> i.starter, dispatched |-> FALSE, state |-> "done",
                    outcome |-> "none", finished |-> FALSE, byTerminal |-> FALSE,
                    byPolicy |-> FALSE, next |-> 0, errorHandler |-> <<>>,
                    threw |-> FALSE]
    IN  IF i.hitchy = "api"
        THEN [context EXCEPT !.dispatched = TRUE, !.state = "dispatching"]
        ELSE IF i.startupError.kind = "Error"
        THEN [context EXCEPT !.errorHandler = <<"startupError">>]
        ELSE [context EXCEPT !.errorHandler = <<"none">>]

\* the callbacks behind hitchy.router.dispatch( context ): throws tells
\* whether the callback invoked by the first one throws
Dispatched(context, outcome, finished, byTerminal, byPolicy, throws) ==
    LET ctx == [context EXCEPT !.state = "done", !.outcome = outcome,
                               !.finished = finished, !.byTerminal = byTerminal,
                               !.byPolicy = byPolicy]
    IN  IF outcome = "rejected"
        THEN [ctx EXCEPT !.errorHandler = <<"rejection">>]
        ELSE IF ~finished /\ ~byTerminal
        THEN IF byPolicy
             THEN [ctx EXCEPT !.errorHandler = IF throws THEN <<"none", "thrown">>
                                               ELSE <<"none">>,
                              !.threw = throws]
             ELSE [ctx EXCEPT !.next = 1,
                              !.errorHandler = IF throws THEN <<"thrown">> ELSE <<>>,
                              !.threw = throws]
        ELSE ctx

\* stop() up to its return
stop(i) ==
    [state |-> "racing", timer |-> "running", starter |-> i.starter,
     expired |-> FALSE, api |-> FALSE, shutdown |-> FALSE, rejected |-> "nothing"]

\* the race of stop() settled and passed on without catching its rejection
Raced_Exposing(i, call_, resolves) ==
    LET raced == [call_ EXCEPT !.starter = i.starter,
                               !.expired = call_.timer = "expired",
                               !.api = i.hitchy = "api"]
    IN  IF i.starter = "rejected"
        THEN [raced EXCEPT !.state = "rejected", !.rejected = "startup"]
        ELSE IF i.starter = "pending"
        THEN [raced EXCEPT !.state = "rejected", !.rejected = "timeout"]
        ELSE IF i.hitchy = "api"
        THEN IF resolves THEN [raced EXCEPT !.state = "resolved", !.shutdown = TRUE]
             ELSE [raced EXCEPT !.state = "rejected", !.shutdown = TRUE,
                                !.rejected = "shutdown"]
        ELSE [raced EXCEPT !.state = "resolved"]

\* the race of stop() settled: its rejection is caught, then the API is shut
\* down if there is one; resolves tells what shutdown() promises
Raced(i, call_, resolves) ==
    LET raced == [call_ EXCEPT !.starter = i.starter,
                               !.expired = call_.timer = "expired",
                               !.api = i.hitchy = "api"]
    IN  IF i.hitchy = "api"
        THEN IF resolves THEN [raced EXCEPT !.state = "resolved", !.shutdown = TRUE]
             ELSE [raced EXCEPT !.state = "rejected", !.shutdown = TRUE,
                                !.rejected = "shutdown"]
        ELSE [raced EXCEPT !.state = "resolved"]

InitInjector ==
    /\ injector = Created
    /\ server = Absent
    /\ api = Undefined
    /\ source = Undefined
    /\ target = Undefined
    /\ call = [class |-> "none"]
    /\ route = None
    /\ raw = Undefined
    /\ table = None
    /\ job = Idle

Injected(event, after) ==
    /\ injector' = after
    /\ call' = [class |-> event]
    /\ UNCHANGED <<api, source, target, route, raw, table, job, server>>

\* the start-up of Hitchy succeeds
StarterResolved ==
    /\ injector.starter = "pending"
    /\ Injected("resolved", [injector EXCEPT !.starter = "resolved", !.hitchy = "api"])

\* the start-up of Hitchy fails
StarterRejected ==
    /\ injector.starter = "pending"
    /\ \E cause \in Causes : Injected("rejected", Rejected(injector, cause))

\* a request arrives
Request ==
    /\ Len(injector.requests) < MaxRequests
    /\ Injected("request",
                [injector EXCEPT !.requests = Append(@, hitchyRequestHandler(injector))])

\* the promise of dispatch() is settled
DispatchSettled ==
    \E n \in 1..Len(injector.requests) :
        /\ injector.requests[n].state = "dispatching"
        /\ \E outcome \in {"resolved", "rejected"}, finished, byTerminal, byPolicy,
              throws \in BOOLEAN :
            /\ outcome = "rejected" => ~finished /\ ~byTerminal /\ ~byPolicy
            /\ throws => outcome = "resolved" /\ ~finished /\ ~byTerminal
            /\ Injected("dispatched",
                        [injector EXCEPT !.requests[n] =
                            Dispatched(@, outcome, finished, byTerminal, byPolicy, throws)])

\* stop() is called
Stop ==
    /\ Len(injector.stops) < MaxStops
    /\ Injected("stop", [injector EXCEPT !.stops = Append(@, stop(injector))])

\* the timer of a call of stop() expires
TimerExpired ==
    \E n \in 1..Len(injector.stops) :
        /\ injector.stops[n].timer = "running"
        /\ Injected("timeout", [injector EXCEPT !.stops[n].timer = "expired"])

\* the race of a call of stop() is settled
RaceSettled ==
    \E n \in 1..Len(injector.stops) :
        /\ injector.stops[n].state = "racing"
        /\ injector.starter # "pending" \/ injector.stops[n].timer = "expired"
        /\ \E resolves \in BOOLEAN :
            /\ ~resolves => injector.hitchy = "api"
            /\ Injected("raced", [injector EXCEPT !.stops[n] = Raced(injector, @, resolves)])

NextInjector ==
    \/ StarterResolved
    \/ StarterRejected
    \/ Request
    \/ DispatchSettled
    \/ Stop
    \/ TimerExpired
    \/ RaceSettled

SpecInjector == InitInjector /\ [][NextInjector]_vars

----------------------------------------------------------------------------
(* Properties of the route compiler.  call holds the arguments the latest   *)
(* constructor call was given, route what it produced.                      *)

Compiled == call.class \in {"TerminalRoute", "PolicyRoute"}

VariantOf(class) == IF class = "TerminalRoute" THEN TerminalRoute ELSE PolicyRoute

ApiUsable(_api) == Truthy(GetProp(_api, "runtime"))

SourceAccepted(src) == ~parseSource(src, FALSE).threw

\* the target selects a component and a method by name
Symbolic(tgt) ==
    /\ ~SelectTarget(tgt).threw
    /\ ~SelectTarget(tgt).direct
    /\ GetProp(SelectTarget(tgt).descriptor, "module").t = "string"

NamedMethod(tgt) == GetProp(SelectTarget(tgt).descriptor, "method")

NamedModule(variant, tgt) ==
    StripTail(variant.tailPattern, GetProp(SelectTarget(tgt).descriptor, "module").s)

\* the symbol is absent from the variant's collection, or lacks a callable of that name
Unresolved(variant, tgt, _api) ==
    LET implementations == GetProp(_api, "runtime")[variant.collectionPluralName]
        found == FindImplementation(implementations, NamedModule(variant, tgt))
    IN  \/ ~Truthy(found)
        \/ Member(implementations[found.s], NamedMethod(tgt)).t # "function"

\* C1: compiling a well-formed symbolic target whose symbol is absent from the
\* variant's collection, or whose named member is not a callable, never throws
\* and yields handler = null, isValid = false and a warning naming the symbol,
\* the method and the collection.
C1_UnresolvedTargetYieldsNullHandler ==
    (Compiled /\ ApiUsable(api) /\ SourceAccepted(call.source) /\ Symbolic(call.target))
        => /\ ~route.threw
           /\ Unresolved(VariantOf(call.class), call.target, api)
                => /\ route.handler = Null
                   /\ route.isValid = FALSE
                   /\ route.warning.t = "text"
                   /\ route.warning.module = NamedModule(VariantOf(call.class), call.target)
                   /\ route.warning.method = NamedMethod(call.target)
                   /\ route.warning.collection = VariantOf(call.class).collectionSingularName

\* the marker in front of the path of a source: the first of the characters
\* = ~ / of the source text
MarkerOf(src) ==
    LET text == IF src.t = "string" THEN src.s ELSE GetProp(src, "url").s
        hits == {i \in 1..Len(text) : text[i] \in {"=", "~", "/"}}
    IN  IF hits = {} \/ text[MinOf(hits)] = "/" THEN "" ELSE text[MinOf(hits)]

\* C2: the compiled pattern is end-anchored exactly when the source carries the
\* = marker, or carries no marker and the route is not prefix-matching: a
\* TerminalRoute is anchored unless its source is marked ~, a PolicyRoute is
\* unanchored unless its source is marked =.
C2_AnchoredIffExactOrUnmarkedTerminal ==
    (Compiled /\ ~route.threw)
        => /\ call.class = "TerminalRoute"
                => (route.pattern.end <=> MarkerOf(call.source) # "~")
           /\ call.class = "PolicyRoute"
                => (route.pattern.end <=> MarkerOf(call.source) = "=")

C2_Witness ==
    /\ Compiled
    /\ ~route.threw
    /\ call.class = "PolicyRoute"
    /\ MarkerOf(call.source) = "="
    /\ route.pattern.end

\* C8: the candidates literal name, kebab-to-Pascal form and camel-to-Pascal
\* form of the stripped symbol name are tried in that order; the first one
\* present in the variant's collection is the only implementation consulted,
\* also when it lacks the callable a later candidate would provide.
C8_FirstPresentCandidateDecides ==
    (Compiled /\ ApiUsable(api) /\ SourceAccepted(call.source) /\ Symbolic(call.target)
        /\ ~route.threw)
        => LET variant == VariantOf(call.class)
               module == NamedModule(variant, call.target)
               candidates == << module, kebabToPascal(module), camelToPascal(module) >>
               implementations == GetProp(api, "runtime")[variant.collectionPluralName]
           IN  /\ \A i \in 1..3 :
                    (/\ Len(candidates[i]) > 0
                     /\ candidates[i] \in DOMAIN implementations
                     /\ \A j \in 1..(i - 1) : candidates[j] \notin DOMAIN implementations)
                    => LET member == Member(implementations[candidates[i]],
                                            NamedMethod(call.target))
                       IN  /\ route.isValid <=> member.t = "function"
                           /\ route.isValid => route.handler = member
               /\ (\A i \in 1..3 : candidates[i] \notin DOMAIN implementations)
                    => ~route.isValid

C8_Witness ==
    /\ Compiled
    /\ ~route.threw
    /\ call.class = "TerminalRoute"
    /\ call.target = Str(<< "a", "-", "b", ":", ":", "r", "u", "n" >>)
    /\ LET controllers == GetProp(api, "runtime").controllers
       IN  /\ << "a", "-", "b" >> \in DOMAIN controllers
           /\ << "A", "B" >> \in DOMAIN controllers
           /\ Member(controllers[<< "a", "-", "b" >>], Str(<< "r", "u", "n" >>)).t # "function"
           /\ Member(controllers[<< "A", "B" >>], Str(<< "r", "u", "n" >>)).t = "function"
    /\ ~route.isValid

\* the collection and the name suffix of a variant, as the claims give them
OwnCollection(class) == IF class = "TerminalRoute" THEN "controllers" ELSE "policies"

OtherCollection(class) == IF class = "TerminalRoute" THEN "policies" ELSE "controllers"

OwnSuffix(class) ==
    IF class = "TerminalRoute" THEN << "c", "o", "n", "t", "r", "o", "l", "l", "e", "r" >> ELSE << "p", "o", "l", "i", "c", "y" >>

\* the name a target gives, with the suffix of the class removed
OwnName(class, tgt) ==
    LET name == GetProp(SelectTarget(tgt).descriptor, "module").s
    IN  IF EndsWith(toLowerCase(name), OwnSuffix(class))
        THEN SubSeq(name, 1, Len(name) - Len(OwnSuffix(class)))
        ELSE name

Spellings(name) == << name, kebabToPascal(name), camelToPascal(name) >>

Present(collection, name) == {i \in 1..3 : Spellings(name)[i] \in DOMAIN collection}

\* api with the collection of the other variant emptied
WithoutOther(_api, class) ==
    Obj([_api.props EXCEPT !.runtime = [@ EXCEPT ![OtherCollection(class)] = <<>>]])

\* C9: a TerminalRoute resolves symbolic targets against controllers only and a
\* PolicyRoute against policies only, each stripping its own suffix only: symbol
\* and method found in the own collection give handler = that method, isValid
\* and no warning; a symbol of the other collection only gives an invalid route
\* with a warning; what the other collection holds changes nothing.
C9_OwnCollectionOnly ==
    (Compiled /\ ApiUsable(api) /\ SourceAccepted(call.source) /\ Symbolic(call.target))
        => LET own == GetProp(api, "runtime")[OwnCollection(call.class)]
               name == OwnName(call.class, call.target)
               present == Present(own, name)
           IN  /\ ~route.threw
               /\ present = {} => /\ ~route.isValid
                                  /\ route.handler = Null
                                  /\ route.warning.t = "text"
                                  /\ route.warning.module = name
               /\ present # {} =>
                    LET member == Member(own[Spellings(name)[MinOf(present)]],
                                         NamedMethod(call.target))
                    IN  member.t = "function" => /\ route.handler = member
                                                 /\ route.isValid
                                                 /\ route.warning = Null
               /\ route = Construct(VariantOf(call.class), call.source, call.target,
                                    WithoutOther(api, call.class)).route

C9_Witness ==
    /\ Compiled
    /\ ApiUsable(api)
    /\ Symbolic(call.target)
    /\ ~route.threw
    /\ Present(GetProp(api, "runtime")[OwnCollection(call.class)],
               OwnName(call.class, call.target)) = {}
    /\ LET other == GetProp(api, "runtime")[OtherCollection(call.class)]
           present == Present(other, OwnName(call.class, call.target))
       IN  /\ present # {}
           /\ Member(other[Spellings(OwnName(call.class, call.target))[MinOf(present)]],
                     NamedMethod(call.target)).t = "function"
    /\ ~route.isValid
    /\ route.warning.t = "text"

\* the API argument is missing or has no runtime
ApiMissing(_api) == _api.t \in {"undefined", "null"} \/ ~HasOwn(_api, "runtime")

\* the target is a callable, a non-empty string, or an object with a name field
\* and a method
TargetShaped(tgt) ==
    \/ tgt.t = "function"
    \/ tgt.t = "string" /\ Len(tgt.s) > 0
    \/ /\ tgt.t = "object"
       /\ \E name \in {"module", "controller", "policy"} : Truthy(GetProp(tgt, name))
       /\ Truthy(GetProp(tgt, "method"))

----------------------------------------------------------------------------
(* Properties of the normalisers.  raw is the definition the latest call    *)
(* was given, call.class the normaliser called, table what it returned.     *)

Normalized == call.class \in {"Plugin", "Custom", "Blueprint"}

IsStageKey(name) == name \in {EARLY, BEFORE, AFTER, LATE}

\* the stage names each entry point accepts in a definition
SupportedStages(class) ==
    IF class = "Custom" THEN {EARLY, BEFORE, AFTER, LATE} ELSE {BEFORE, AFTER}

HasStageKey(definition) ==
    definition.t = "dict" /\ \E i \in 1..Len(definition.keys) : IsStageKey(definition.keys[i])

\* C3: a plain-object definition with at least one key among early, before,
\* after, late is normalised only if every key is a stage name the entry point
\* supports; otherwise the call raises an error and returns no table.
C3_StageTableNeedsSupportedStagesOnly ==
    (Normalized /\ HasStageKey(raw) /\ ~table.threw)
        => \A i \in 1..Len(raw.keys) : raw.keys[i] \in SupportedStages(call.class)

C3_Witness ==
    /\ call.class = "Plugin"
    /\ raw.t = "dict"
    /\ Len(raw.keys) = 6
    /\ \A i \in 1..5 : ~IsStageKey(raw.keys[i])
    /\ raw.keys[6] = AFTER
    /\ table.threw

\* the routes of a flat definition, in input order: source and target each
Inputs(definition) ==
    CASE definition.t = "array" ->
            [i \in 1..Len(definition.items) |->
                IF IsArray(definition.items[i])
                THEN [src |-> definition.items[i].items[1], tgt |-> definition.items[i].items[2]]
                ELSE [src |-> definition.items[i], tgt |-> definition.items[i]]]
      [] definition.t = "dict" ->
            [i \in 1..Len(definition.keys) |->
                [src |-> Str(definition.keys[i]), tgt |-> definition.vals[i]]]
      [] definition.t = "map" ->
            [i \in 1..Len(definition.entries) |->
                [src |-> definition.entries[i].key, tgt |-> definition.entries[i].value]]
      [] OTHER -> <<>>

\* the key <METHOD> <marker><url> a source resolves to
SourceKey(src) ==
    LET pre == preparseSource(src)
    IN  pre.type \o << " " >>
            \o (IF pre.exact THEN << "=" >> ELSE IF pre.prefix THEN << "~" >> ELSE <<>>)
            \o pre.url

\* a definition that is one flat set of routes, all of them well-formed
IsFlatSet(definition) ==
    /\ definition.t \in {"array", "dict", "map"}
    /\ ~HasStageKey(definition)
    /\ definition.t = "array" =>
            \A i \in 1..Len(definition.items) :
                IsArray(definition.items[i]) => Len(definition.items[i].items) = 2
    /\ \A i \in 1..Len(Inputs(definition)) : ~preparseSource(Inputs(definition)[i].src).threw

\* the mapping a normaliser made of a flat definition
FlatResult ==
    IF table.value.t = "map" THEN table.value ELSE table.value.props.before

\* the targets of all routes of a definition that resolve to the key of route i
TargetsLike(definition, i) ==
    LET inputs == Inputs(definition)
        RECURSIVE Collect(_)
        Collect(j) ==
            IF j > Len(inputs) THEN <<>>
            ELSE IF SourceKey(inputs[j].src) = SourceKey(inputs[i].src)
            THEN << inputs[j].tgt >> \o Collect(j + 1)
            ELSE Collect(j + 1)
    IN  Collect(1)

\* C4: when n >= 2 routes of a flat array or plain-object definition resolve to
\* the same source key, the mapping holds one flat list of all n targets in
\* input order under it.
C4_DuplicatesAccumulateFlat ==
    (Normalized /\ raw.t \in {"array", "dict"} /\ IsFlatSet(raw) /\ ~table.threw)
        => \A i \in 1..Len(Inputs(raw)) :
                Len(TargetsLike(raw, i)) >= 2
                    => \E e \in 1..Len(FlatResult.entries) :
                            FlatResult.entries[e].value = Arr(TargetsLike(raw, i))

\* all targets held by a value of a mapping, lists unfolded
RECURSIVE Unfold(_)
Unfold(value) ==
    IF IsArray(value)
    THEN LET RECURSIVE Each(_)
             Each(i) == IF i > Len(value.items) THEN <<>>
                        ELSE Unfold(value.items[i]) \o Each(i + 1)
         IN  Each(1)
    ELSE << value >>

Range(seq) == {seq[i] : i \in 1..Len(seq)}

\* the targets of the routes of a definition that come first for their key
FirstTargets(definition) ==
    LET inputs == Inputs(definition)
        RECURSIVE Pick(_)
        Pick(i) ==
            IF i > Len(inputs) THEN <<>>
            ELSE IF \E j \in 1..(i - 1) : SourceKey(inputs[j].src) = SourceKey(inputs[i].src)
            THEN Pick(i + 1)
            ELSE << inputs[i].tgt >> \o Pick(i + 1)
    IN  Pick(1)

\* C5: the Plugin and the Custom normaliser place all routes of a defined flat
\* definition (array, plain object keyed by sources, ordered mapping) in input
\* order into stage before and leave every other stage empty; no route is dropped.
C5_FlatDefinitionFillsBefore ==
    (call.class \in {"Plugin", "Custom"} /\ IsFlatSet(raw))
        => /\ ~table.threw
           /\ \A stage \in DOMAIN table.value.props :
                stage # "before" => table.value.props[stage].entries = <<>>
           /\ LET before == table.value.props.before.entries
              IN  /\ \A i \in 1..Len(Inputs(raw)) :
                        \E e \in 1..Len(before) :
                            Range(Unfold(Inputs(raw)[i].tgt)) \subseteq Range(Unfold(before[e].value))
                  /\ [e \in 1..Len(before) |-> Head(Unfold(before[e].value))]
                        = [i \in 1..Len(FirstTargets(raw)) |-> Head(Unfold(FirstTargets(raw)[i]))]

\* the stage set of each entry point, as the claim gives it
ClaimedStages(class) ==
    IF class = "Custom" THEN {"early", "before", "after", "late"} ELSE {"before", "after"}

\* the definition does not supply the stage
NotSupplied(definition, stage) ==
    \/ definition.t \in {"undefined", "null"}
    \/ definition.t \in {"array", "map"} /\ stage # "before"
    \/ definition.t = "dict" /\ HasStageKey(definition) /\ ~DictHas(definition, StageName(stage))
    \/ definition.t = "dict" /\ ~HasStageKey(definition) /\ stage # "before"

StagedAs(stages) ==
    /\ table.value.t = "object"
    /\ DOMAIN table.value.props = stages
    /\ \A stage \in stages :
        /\ table.value.props[stage].t = "map"
        /\ NotSupplied(raw, stage) => table.value.props[stage].entries = <<>>

Mappings ==
    IF table.value.t = "map" THEN {table.value}
    ELSE {table.value.props[stage] : stage \in DOMAIN table.value.props}

\* C7: every key of every stage a normaliser produces is a string
\* <METHOD> <marker><url>, METHOD in uppercase, the marker that of the source,
\* url starting with "/", whether it came from a plain-object key, a pair or a
\* bare source: parsing the key gives what parsing the source gives.
C7_KeysAreNormalizedSources ==
    (Normalized /\ ~table.threw)
        => /\ \A mapping \in Mappings : \A e \in 1..Len(mapping.entries) :
                /\ mapping.entries[e].key.t = "string"
                /\ ~preparseSource(mapping.entries[e].key).threw
                /\ SourceKey(mapping.entries[e].key) = mapping.entries[e].key.s
           /\ IsFlatSet(raw) =>
                \A i \in 1..Len(Inputs(raw)) :
                    \E e \in 1..Len(FlatResult.entries) :
                        FlatResult.entries[e].key = Str(SourceKey(Inputs(raw)[i].src))

----------------------------------------------------------------------------
(* Inputs of the source parser: every path of up to MaxPath characters of   *)
(* PathChars, with and without marker, as string and as descriptor, and     *)
(* sources declaring a method.                                              *)

MaxPath == 4

PathChars == {"/", "a", ":", "(", ")", "?"}

Paths == UNION {[1..n -> PathChars] : n \in 0..MaxPath}

Markers == {<<>>, << "=" >>, << "~" >>}

MethodSourceList ==
    << Str(<< "1", " ", "/" >>),    \* "1 /"
       Str(<< "2", "3", " ", "/" >>),    \* "23 /"
       Str(<< "A", "1", " ", "/" >>),    \* "A1 /"
       Str(<< "A", "N", "Y", "_", "T", "Y", "P", "E", " ", "/" >>),    \* "ANY_TYPE /"
       Str(<< "-", "L", "E", "S", "S", " ", "/" >>),    \* "-LESS /"
       Str(<< "+", " ", "/" >>),    \* "+ /"
       Str(<< "G", " ", "/", "a" >>),    \* "G /a"
       Str(<< "g", "e", "t", " ", "/", "a" >>),    \* "get /a"
       Str(<< "G", "E", "T", " ", "/", "a" >>),    \* "GET /a"
       Str(<< "G", "e", "t", " ", "/", "a" >>),    \* "Get /a"
       Str(<< "a", "l", "l", " ", "/", "a" >>),    \* "all /a"
       Str(<< "A", "L", "L", " ", "/", "a" >>),    \* "ALL /a"
       Str(<< "a", "n", "y", "T", "h", "i", "n", "g", " ", "/", "a" >>),    \* "anyThing /a"
       Str(<< "A", "N", "Y", "T", "H", "I", "N", "G", " ", "/", "a" >>),    \* "ANYTHING /a"
       Str(<< "s", "o", "m", "e", "-", "t", "Y", "P", "E", " ", "/", "a" >>),    \* "some-tYPE /a"
       Str(<< "*", " ", "/", "a" >>),    \* "* /a"
       Str(<< "/", "a" >>),    \* "/a"
       Str(<< " ", "g", "e", "t", " ", " ", "/", "a", " " >>),    \* " get  /a "
       Str(<< "g", "e", "t", " ", "=", "/", "a" >>),    \* "get =/a"
       Str(<< "x", "-", " ", "~", "/", "a" >>),    \* "x- ~/a"
       Str(<< "/" >>),    \* "/"
       Str(<< "/", "t", "e", "s", "t", "/" >>),    \* "/test/"
       Str(<< "/", "t", "e", "s", "t", "/", "m", "o", "r", "e", "/", ":", "n", "a", "m", "e" >>),    \* "/test/more/:name"
       Str(<< "/", "t", "e", "s", "(", "t", ")", "?", "/", "(", "m", "o", "r", "e", ")" >>),    \* "/tes(t)?/(more)"
       Str(<< "/", "t", "e", "s", "t", "(", "m", "o", "r", "e", ")" >>),    \* "/test(more)"
       Str(<< "/", ":", "a", "/", "b" >>),    \* "/:a/b"
       Str(<< "/", "t", "e", "s", "t", "/", "m", "o", "r", "e", "/" >>),    \* "/test/more/"
       Str(<< "/", "a", " ", "b", "/" >>),    \* "/a b/"
       Str(<< "/", "a", "/", "+" >>),    \* "/a/+"
       Obj([type |-> Str(<< "1" >>), url |-> Str(<< "/", "a" >>)]),    \* { type: "1", url: "/a" }
       Obj([type |-> Str(<< "A", "1" >>), url |-> Str(<< "/", "a" >>)]),    \* { type: "A1", url: "/a" }
       Obj([type |-> Str(<< "A", "N", "Y", "_", "T", "Y", "P", "E" >>), url |-> Str(<< "/", "a" >>)]),    \* { type: "ANY_TYPE", url: "/a" }
       Obj([type |-> Str(<< "-", "L", "E", "S", "S" >>), url |-> Str(<< "/", "a" >>)]),    \* { type: "-LESS", url: "/a" }
       Obj([type |-> Str(<< "+" >>), url |-> Str(<< "/", "a" >>)]),    \* { type: "+", url: "/a" }
       Obj([type |-> Str(<< "G" >>), url |-> Str(<< "/", "a" >>)]),    \* { type: "G", url: "/a" }
       Obj([type |-> Str(<< "g", "e", "t" >>), url |-> Str(<< "/", "a" >>)]),    \* { type: "get", url: "/a" }
       Obj([type |-> Str(<< "G", "E", "T" >>), url |-> Str(<< "/", "a" >>)]),    \* { type: "GET", url: "/a" }
       Obj([type |-> Str(<< "a", "l", "l" >>), url |-> Str(<< "/", "a" >>)]),    \* { type: "all", url: "/a" }
       Obj([type |-> Str(<< "a", "n", "y", "T", "h", "i", "n", "g" >>), url |-> Str(<< "/", "a" >>)]),    \* { type: "anyThing", url: "/a" }
       Obj([type |-> Str(<< "s", "o", "m", "e", "-", "t", "Y", "P", "E" >>), url |-> Str(<< "/", "a" >>)]),    \* { type: "some-tYPE", url: "/a" }
       Obj([type |-> Str(<< "*" >>), url |-> Str(<< "/", "a" >>)]),    \* { type: "*", url: "/a" }
       Obj([type |-> Str(<<>>), url |-> Str(<< "/", "a" >>)]),    \* { type: "", url: "/a" }
       Obj([type |-> Str(<< " ", "g", "e", "t", " " >>), url |-> Str(<< "/", "a" >>)]),    \* { type: " get ", url: "/a" }
       Obj([url |-> Str(<< "/", "a" >>)]),    \* { url: "/a" }
       Obj([url |-> Str(<< "=", " ", "/", "t", "e", "s", "t", "/" >>)])    \* { url: "= /test/" }
    >>

\* a handler function as target and the first registry: the target of every
\* route compiled here is valid
InitSource ==
    /\ api = ApiList[1]
    /\ target = Fun("f1")
    /\ \/ \E marker \in Markers, path \in Paths :
            \/ source = Str(marker \o path)
            \/ source = Obj([url |-> Str(marker \o path)])
       \/ \E i \in 1..Len(MethodSourceList) : source = MethodSourceList[i]
    /\ call = [class |-> "none"]
    /\ route = None
    /\ raw = Undefined
    /\ table = None
    /\ job = Idle
    /\ server = Absent
    /\ injector = Absent

SpecSource == InitSource /\ [][NextRoute]_vars

----------------------------------------------------------------------------
(* Methods of a route: the routes of both variants for the paths of         *)
(* MethodPathList, and the operations on a route once it is constructed.    *)
(* Javascript runs a call to its end before another handler gets its turn:  *)
(* while generateExamples is in progress no other operation starts.         *)

MethodPathList ==
    << << "/" >>, << "/", "t", "e" >>, << "/", "t", "e", "s", "t", "/", "n", "a", "m", "e", "/", "s", "u", "b" >>, << "/", "t", "e", "s", "t", "e" >>, << "/", ":", "m", "a", "j", "o", "r" >>, << "/", ":", "m", "a", "j", "o", "r", "*", "/", "n", "a", "m", "e" >>,
       << "/", "t", "e", "s", "t", "/", ":", "m", "i", "n", "o", "r", "?" >>, << "/", "(", "t", "e", "s", "t", ")", "+", "/", "n", "a", "m", "e" >>, << "/", "t", "e", "s", "t", "(", ".", ")", "?" >>,
       << "/", ":", "a", "?" >>, << "/", ":", "a", "+" >>, << "/", ":", "a", "/", ":", "b" >>, << "/", ":", "a", "*", "/", ":", "b", "+", "/", ":", "c", "?" >>, << "/", "p", "/", ":", "a", "?", "/", ":", "b", "?", "/", "q" >>
    >>

MethodNames == {<<>>, << "G", "E", "T", " " >>}

MethodTargets == << Fun("f1"), Str(<< "J", "o", "b", ".", "n", "o", "p", "e" >>) >>

\* arguments of selectProbablyCoveredPrefixes
CandidateLists ==
    << Arr(<< Str(<< "/", "t", "e", "s", "t", "/", "n", "a", "m", "e", "/", "s", "u", "b" >>) >>),
       Arr(<< Str(<< "/" >>), Str(<< "/", "t", "e", "s", "t" >>), Str(<< "/", "t", "e", "s", "t", "/" >>), Str(<< "/", "t", "e", "s", "t", "/", "n", "a", "m", "e" >>), Str(<< "/", "t", "e", "s", "t", "e", "r", "/", "x" >>) >>),
       Arr(<< Str(<< "/", "p" >>), Str(<< "/", "p", "/", "q" >>), Str(<< "/", "p", "/", "x", "/", "q" >>), Str(<< "/", "p", "/", "x", "/", "y", "/", "q", "/", "z" >>), Str(<< "/", "p", "/", "x", "/" >>) >>),
       Arr(<< Str(<< "/", "t", "e", "s", "t" >>), Str(<< "/", "t", "e" >>), Str(<< "/", "t", "e", "s", "t" >>) >>),
       Arr(<<>>),
       Str(<< "/", "t", "e", "s", "t" >>),
       Arr(<< Str(<< "/", "t", "e", "s", "t" >>), Str(<< " " >>) >>),
       Arr(<< Str(<< "/", "t", "e", "s", "t" >>), Num(1) >>)
    >>

\* arguments of generateExamples
CustomValuesList ==
    << Dict(<<>>, <<>>),
       Dict(<< << "a" >> >>, << Str(<< "v" >>) >>),
       Dict(<< << "a" >>, << "b" >>, << "c" >> >>, << Str(<< "v" >>), Arr(<< Str(<< "w" >>), Str(<< "x" >>) >>), Str(<< "y" >>) >>),
       Dict(<< << "a" >> >>, << Arr(<< Str(<< "v" >>), Str(<< "w" >>) >>) >>),
       Dict(<< << "a" >>, << "b" >> >>, << Str(<<>>), Arr(<<>>) >>)
    >>

FixValues == << Null, Str(<< "*" >>), Arr(<< Str(<< "*" >>), Str(<< "-" >>) >>) >>

Options(fixValue, useNames, minLengthOnly, maxLengthOnly) ==
    [fixValue |-> fixValue, useNames |-> useNames,
     minLengthOnly |-> minLengthOnly, maxLengthOnly |-> maxLengthOnly]

OptionsList ==
    << Options(Null, FALSE, FALSE, FALSE),
       Options(FixValues[2], FALSE, FALSE, FALSE),
       Options(FixValues[3], FALSE, FALSE, FALSE),
       Options(Null, TRUE, FALSE, FALSE),
       Options(Null, FALSE, TRUE, FALSE),
       Options(Null, FALSE, FALSE, TRUE),
       Options(FixValues[2], FALSE, TRUE, FALSE),
       Options(FixValues[2], FALSE, FALSE, TRUE),
       Options(FixValues[3], FALSE, FALSE, TRUE),
       Options(Null, FALSE, TRUE, TRUE),
       Options(FixValues[2], TRUE, FALSE, FALSE)
    >>

Fields ==
    {"source", "target", "method", "path", "prefix", "pattern", "parameters",
     "compile", "handler", "args", "warning", "isValid"}

InitMethods ==
    /\ api = ApiList[1]
    /\ target = MethodTargets[1]
    /\ \E variant \in {TerminalRoute, PolicyRoute}, marker \in Markers,
          i \in 1..Len(MethodPathList) :
            /\ source = Str(marker \o MethodPathList[i])
            /\ call = [class |-> variant.class]
            /\ route = Construct(variant, source, target, api).route
    /\ ~route.threw
    /\ raw = Undefined
    /\ table = None
    /\ job = Idle
    /\ server = Absent
    /\ injector = Absent

\* an assignment leaving the field with the value assigned
AssignField_Writable(this, field, value) == [this EXCEPT ![field] = value]

\* this[field] = value on a property defined with a value only
AssignField(this, field, value) == this

Assign ==
    /\ job.state # "running"
    /\ \E field \in Fields :
        /\ route' = AssignField(route, field, Null)
        /\ call' = [class |-> "assign", field |-> field]
    /\ job' = Idle
    /\ UNCHANGED <<api, source, target, raw, table, server, injector>>

SelectProbablyCoveredPrefixes ==
    /\ job.state # "running"
    /\ \E i \in 1..Len(CandidateLists) :
        call' = [class |-> "selectProbablyCoveredPrefixes",
                 options |-> CandidateLists[i],
                 result |-> selectProbablyCoveredPrefixes(route, CandidateLists[i])]
    /\ job' = Idle
    /\ UNCHANGED <<api, source, target, route, raw, table, server, injector>>

\* countsPerParameter before it is reversed
AllCounts(parameters, customValues, options) ==
    [i \in 1..Len(parameters) |-> Counts(parameters[i], customValues, options)]

\* generateExamples up to its loop creating the examples
Start(customValues, options) ==
    [state |-> "running",
     customValues |-> customValues,
     options |-> options,
     count |-> Product(AllCounts(route.parameters, customValues, options), 1),
     countsPerParameter |-> reverse(AllCounts(route.parameters, customValues, options)),
     i |-> 0,
     cases |-> <<>>,
     examples |-> <<>>]

GenerateExamples ==
    /\ job.state # "running"
    /\ \A i \in 1..Len(route.parameters) : route.parameters[i].pattern = DefaultPattern
    /\ \E c \in 1..Len(CustomValuesList), o \in 1..Len(OptionsList) :
        job' = Start(CustomValuesList[c], OptionsList[o])
    /\ call' = [class |-> "generateExamples"]
    /\ UNCHANGED <<api, source, target, route, raw, table, server, injector>>

\* the numbers of values the counters stand at
Case(counters) == [ci \in 1..Len(counters) |-> counters[ci].next]

\* one pass of the loop creating the examples
Example ==
    /\ job.state = "running"
    /\ job.i < job.count
    /\ LET compiled == Apply(route.compile, ValuesLoop(job.countsPerParameter, 1, <<>>))
       IN  job' = IF compiled.threw
                  THEN [job EXCEPT !.state = "threw"]
                  ELSE [job EXCEPT !.examples = Append(@, compiled.path),
                                   !.cases = Append(@, Case(job.countsPerParameter)),
                                   !.countsPerParameter = NextCase(@, 1, TRUE),
                                   !.i = @ + 1]
    /\ UNCHANGED <<api, source, target, call, route, raw, table, server, injector>>

\* return examples
Return ==
    /\ job.state = "running"
    /\ job.i = job.count
    /\ job' = [job EXCEPT !.state = "returned"]
    /\ UNCHANGED <<api, source, target, call, route, raw, table, server, injector>>

NextMethods ==
    Assign \/ SelectProbablyCoveredPrefixes \/ GenerateExamples \/ Example \/ Return

SpecMethods == InitMethods /\ [][NextMethods]_vars

----------------------------------------------------------------------------
(* Matching and rendering: the routes of both variants for the paths of     *)
(* MatchPathList, their pattern applied to every request path of up to      *)
(* MaxRequest characters of RequestChars, and their compile applied to the  *)
(* values the match has captured.                                           *)

MaxRequest == 5

RequestChars == {"/", "a", "=", "."}

Requests == UNION {[1..n -> RequestChars] : n \in 0..MaxRequest}

MatchPathList ==
    << << "/" >>,    \* "/"
       << "/", "a" >>,    \* "/a"
       << "/", "a", "/" >>,    \* "/a/"
       << "/", ":", "x" >>,    \* "/:x"
       << "/", "a", "/", ":", "x" >>,    \* "/a/:x"
       << "/", "a", "/", ":", "x", "?" >>,    \* "/a/:x?"
       << "/", ":", "x", "+" >>,    \* "/:x+"
       << "/", ":", "x", "*" >>,    \* "/:x*"
       << "/", ":", "x", "*", "/", "a" >>,    \* "/:x*/a"
       << "/", ":", "x", "/", ":", "y" >>,    \* "/:x/:y"
       << "/", "a", "(", ".", ")", "?" >>,    \* "/a(.)?"
       << "/", "(", "a", ")", "+" >>,    \* "/(a)+"
       << "/", "a", ":", "x" >>,    \* "/a:x"
       << "/", ":", "x", ".", ":", "y", "?" >>    \* "/:x.:y?"
    >>

\* raw is the path of the request the pattern is applied to
InitMatch ==
    /\ api = ApiList[1]
    /\ target = MethodTargets[1]
    /\ \E variant \in {TerminalRoute, PolicyRoute}, marker \in Markers,
          i \in 1..Len(MatchPathList) :
            /\ source = Str(marker \o MatchPathList[i])
            /\ call = [class |-> variant.class]
            /\ route = Construct(variant, source, target, api).route
    /\ ~route.threw
    /\ \E path \in Requests : raw = Str(path)
    /\ table = None
    /\ job = Idle
    /\ server = Absent
    /\ injector = Absent

\* this.pattern.exec( path )
Exec ==
    /\ call.class \in {"TerminalRoute", "PolicyRoute"}
    /\ call' = [class |-> "exec", path |-> raw.s, match |-> Match(route.pattern, raw.s)]
    /\ UNCHANGED <<api, source, target, route, raw, table, job, server, injector>>

\* this.compile( values ) with the values the latest match has captured
Render ==
    /\ call.class = "exec"
    /\ call.match.matched
    /\ call' = [class |-> "compile", path |-> call.path, match |-> call.match,
                result |-> Apply(route.compile, call.match.values)]
    /\ UNCHANGED <<api, source, target, route, raw, table, job, server, injector>>

NextMatch == Exec \/ Render

SpecMatch == InitMatch /\ [][NextMatch]_vars

----------------------------------------------------------------------------
(* Properties of the source parser *)

\* the path obeys the four rules for paths
WellFormedPath(path) ==
    /\ Len(path) >= 1
    /\ path[1] = "/"
    /\ \A i \in 1..(Len(path) - 1) :
        /\ ~(path[i] = "/" /\ path[i + 1] = "/")
        /\ ~(path[i] = "(" /\ path[i + 1] = ")")
        /\ (path[i] = "/" /\ path[i + 1] = ":")
                => (i + 2 <= Len(path) /\ IsWordChar(path[i + 2]))

\* C11: source parsing fails if the path left after removing the marker does
\* not start with "/" (also when it is empty), contains "//", contains "/:" not
\* followed by a word character, or contains "()": no Route is produced whose
\* path violates one of these conditions.
C11_NoRouteWithIllFormedPath ==
    (Compiled /\ ~route.threw) => WellFormedPath(route.path)

\* the text of a value without the blanks around it
Stripped(text) ==
    LET solid == {i \in 1..Len(text) : text[i] # " "}
    IN  IF solid = {} THEN <<>>
        ELSE [i \in 1..(MaxOf(solid) - MinOf(solid) + 1) |-> text[MinOf(solid) + i - 1]]

\* the method a source declares: the word before the first blank of a string
\* that does not begin with its path, the type of a descriptor
DeclaredMethod(src) ==
    IF src.t = "string"
    THEN LET text == Stripped(src.s)
             blanks == {i \in 1..Len(text) : text[i] = " "}
         IN  IF text = <<>> \/ text[1] \in {"/", "=", "~"} \/ blanks = {}
             THEN [given |-> FALSE]
             ELSE [given |-> TRUE, token |-> SubSeq(text, 1, MinOf(blanks) - 1)]
    ELSE IF HasOwn(src, "type") /\ GetProp(src, "type").t = "string"
              /\ Stripped(GetProp(src, "type").s) # <<>>
    THEN [given |-> TRUE, token |-> Stripped(GetProp(src, "type").s)]
    ELSE [given |-> FALSE]

\* * or a letter followed by letters or hyphens
ValidMethodToken(token) ==
    \/ token = << "*" >>
    \/ /\ Len(token) >= 1
       /\ IsLetter(token[1])
       /\ \A i \in 2..Len(token) : IsLetter(token[i]) \/ token[i] = "-"

\* C12: source parsing fails whenever the declared method is neither * nor a
\* letter followed by letters or hyphens, for string sources and equally for
\* descriptor sources whose type is such a token.
C12_InvalidMethodIsRejected ==
    (Compiled /\ DeclaredMethod(call.source).given
              /\ ~ValidMethodToken(DeclaredMethod(call.source).token))
        => route.threw

Capital(c) ==
    IF \E i \in 1..26 : LowerCase[i] = c
    THEN UpperCase[CHOOSE i \in 1..26 : LowerCase[i] = c]
    ELSE c

\* the method a route is expected to have for what its source declares
ExpectedMethod(declared) ==
    IF ~declared.given \/ declared.token = << "*" >>
    THEN << "A", "L", "L" >>
    ELSE [i \in 1..Len(declared.token) |-> Capital(declared.token[i])]

\* C13: for every accepted source the method of the route is ALL when the
\* method is omitted or *, and the uppercase form of the given token otherwise;
\* it does not depend on the letter case of the token and is the same for the
\* string form and the descriptor form of a source.
C13_MethodIsUppercaseOrAll ==
    (Compiled /\ ~route.threw)
        => /\ route.method = ExpectedMethod(DeclaredMethod(call.source))
           /\ \A i \in 1..Len(MethodSourceList) :
                (/\ ~preparseSource(MethodSourceList[i]).threw
                 /\ ExpectedMethod(DeclaredMethod(MethodSourceList[i]))
                        = ExpectedMethod(DeclaredMethod(call.source)))
                    => preparseSource(MethodSourceList[i]).type = route.method

C13_Witness ==
    /\ Compiled
    /\ ~route.threw
    /\ call.source.t = "object"
    /\ GetProp(call.source, "type") = Str(<< "s", "o", "m", "e", "-", "t", "Y", "P", "E" >>)
    /\ route.method = << "S", "O", "M", "E", "-", "T", "Y", "P", "E" >>
    /\ preparseSource(Str(<< "s", "o", "m", "e", "-", "t", "Y", "P", "E", " ", "/", "a" >>)).type = route.method

\* the prefix expected for a path: what precedes its first parameter, group or
\* character carrying a modifier, without a trailing slash, "/" when that is empty
ExpectedPrefix(path) ==
    LET metas == {i \in 1..Len(path) : path[i] \in {"*", "+", "?", "(", ":", "[", "{"}}
        first == IF metas = {} THEN Len(path) + 1 ELSE MinOf(metas)
        stopAt == IF metas # {} /\ path[first] \in {"*", "+", "?"} THEN first - 2 ELSE first - 1
        cut == IF stopAt >= 1 /\ path[stopAt] = "/" THEN stopAt - 1 ELSE stopAt
    IN  IF cut <= 0 THEN << "/" >> ELSE SubSeq(path, 1, cut)

\* C14: for every accepted path, prefix is a leading substring of path that
\* starts with "/", contains none of * + ? ( : [ {, has no trailing slash unless
\* it is exactly "/", and ends before the first parameter, group or character
\* carrying a modifier.
C14_PrefixIsStaticLeadOfPath ==
    (Compiled /\ ~route.threw)
        => /\ Len(route.prefix) <= Len(route.path)
           /\ SubSeq(route.path, 1, Len(route.prefix)) = route.prefix
           /\ route.prefix[1] = "/"
           /\ \A i \in 1..Len(route.prefix) :
                route.prefix[i] \notin {"*", "+", "?", "(", ":", "[", "{"}
           /\ route.prefix[Len(route.prefix)] = "/" => route.prefix = << "/" >>
           /\ route.prefix = ExpectedPrefix(route.path)
           /\ route.path = << "/", "t", "e", "s", "t", "/", "m", "o", "r", "e", "/", ":", "n", "a", "m", "e" >> => route.prefix = << "/", "t", "e", "s", "t", "/", "m", "o", "r", "e" >>
           /\ route.path = << "/", "t", "e", "s", "(", "t", ")", "?", "/", "(", "m", "o", "r", "e", ")" >> => route.prefix = << "/", "t", "e", "s" >>
           /\ route.path = << "/", "t", "e", "s", "t", "(", "m", "o", "r", "e", ")" >> => route.prefix = << "/", "t", "e", "s", "t" >>
           /\ route.path = << "/", "t", "e", "s", "t", "/" >> => route.prefix = << "/", "t", "e", "s", "t" >>
           /\ route.path = << "/", ":", "a", "/", "b" >> => route.prefix = << "/" >>

----------------------------------------------------------------------------
(* Properties of selectProbablyCoveredPrefixes *)

\* the positions behind which a pattern can end when it starts behind p
PatternReach(pattern, str, p) ==
    IF pattern = DefaultPattern
    THEN {e \in (p + 1)..Len(str) : \A j \in (p + 1)..e : str[j] \notin {"/", "#", "?"}}
    ELSE {e \in {p + Len(pattern)} :
            /\ e <= Len(str)
            /\ \A j \in 1..Len(pattern) : pattern[j] = "." \/ pattern[j] = str[p + j]}

TextReach(text, str, from) ==
    {p + Len(text) : p \in {x \in from : x + Len(text) <= Len(str)
                                          /\ SubSeq(str, x + 1, x + Len(text)) = text}}

\* one occurrence of a key: its prefix, its pattern and its suffix
UnitReach(token, str, from) ==
    TextReach(token.suffix, str,
        UNION {PatternReach(token.pattern, str, p) : p \in TextReach(token.prefix, str, from)})

RECURSIVE Repeated(_, _, _, _)
Repeated(token, str, from, n) ==
    IF n = 0 THEN from
    ELSE Repeated(token, str, from \cup UnitReach(token, str, from), n - 1)

KeyReach(token, str, from) ==
    CASE token.modifier = <<>> -> UnitReach(token, str, from)
      [] token.modifier = << "?" >> -> from \cup UnitReach(token, str, from)
      [] token.modifier = << "+" >> -> Repeated(token, str, UnitReach(token, str, from), Len(str))
      [] token.modifier = << "*" >> ->
            from \cup Repeated(token, str, UnitReach(token, str, from), Len(str))

RECURSIVE TokensReach(_, _, _, _)
TokensReach(tokens, k, str, from) ==
    IF k > Len(tokens) THEN from
    ELSE TokensReach(tokens, k + 1, str,
            IF tokens[k].kind = "text" THEN TextReach(tokens[k].text, str, from)
            ELSE KeyReach(tokens[k], str, from))

\* the lengths of the leading parts of str that the pattern of a path without
\* its end anchor matches: the path, then an optional delimiter
Reach(path, str) ==
    LET body == TokensReach(parse(path).tokens, 1, str, {0})
    IN  body \cup {p + 1 : p \in {x \in body : x < Len(str) /\ str[x + 1] \in {"/", "#", "?"}}}

\* the end of the first match of the pattern of a path without its end anchor
FirstMatch(path, str) ==
    exec([tokens |-> parse(path).tokens, end |-> TRUE, dollar |-> FALSE], str)

Selected == call.class = "selectProbablyCoveredPrefixes" /\ ~call.result.threw

Mark(covered, str) ==
    IF \E k \in 1..Len(covered) : covered[k].key = str
    THEN covered[CHOOSE k \in 1..Len(covered) : covered[k].key = str].value
    ELSE 0

C16_CoverageDependsOnPathOnly ==
    call.class = "selectProbablyCoveredPrefixes" =>
        \A variant \in {TerminalRoute, PolicyRoute}, marker \in Markers,
           name \in MethodNames, t \in 1..Len(MethodTargets) :
            LET other == Construct(variant, Str(name \o marker \o route.path),
                                   MethodTargets[t], api).route
            IN  /\ ~other.threw
                /\ other.path = route.path
                /\ selectProbablyCoveredPrefixes(other, call.options) = call.result

C16_Witness ==
    /\ Selected
    /\ route.class = PolicyRoute.class
    /\ ~route.pattern.end
    /\ route.isValid
    /\ Mark(call.result.covered, << "/", "t", "e", "s", "t", "/", "n", "a", "m", "e", "/", "s", "u", "b" >>) = MATCH_PARTIAL
    /\ \E variant \in {TerminalRoute}, marker \in {<< "=" >>} :
        LET other == Construct(variant, Str(<< "G", "E", "T", " " >> \o marker \o route.path),
                               MethodTargets[2], api).route
        IN  /\ other.pattern.end
            /\ ~other.isValid
            /\ other.method # route.method
            /\ selectProbablyCoveredPrefixes(other, call.options) = call.result

----------------------------------------------------------------------------
(* Properties of generateExamples *)

Returned == job.state = "returned"

DefaultCall ==
    /\ job.customValues = CustomValuesList[1]
    /\ job.options = OptionsList[1]

\* the number of examples a parameter stands for by default
DefaultFactor(modifier) ==
    CASE modifier = <<>> -> 1
      [] modifier = << "?" >> -> 2
      [] modifier = << "+" >> -> 3
      [] modifier = << "*" >> -> 4

RECURSIVE DefaultCount(_, _)
DefaultCount(parameters, i) ==
    IF i > Len(parameters) THEN 1
    ELSE DefaultFactor(parameters[i].modifier) * DefaultCount(parameters, i + 1)

RECURSIVE Sizes(_, _)
Sizes(counters, n) ==
    IF n = 0 THEN 1
    ELSE (counters[n].max - counters[n].min + 1) * Sizes(counters, n - 1)

\* C17: generateExamples returns exactly the product over all parameters of
\* (max - min + 1) paths: with default options and no custom values a mandatory
\* singular parameter contributes factor 1, an optional one 2, a repeatable
\* mandatory one 3 and a repeatable optional one 4, for any number and order of
\* parameters (no parameter gives 1 path; *, + and ? together give 24); with
\* minLengthOnly or maxLengthOnly exactly one path is returned.
C17_CountIsProductOfRanges ==
    Returned =>
        /\ Len(job.examples) = Sizes(job.countsPerParameter, Len(job.countsPerParameter))
        /\ DefaultCall => Len(job.examples) = DefaultCount(route.parameters, 1)
        /\ (DefaultCall /\ route.parameters = <<>>) => Len(job.examples) = 1
        /\ (DefaultCall /\ route.path = << "/", ":", "a", "*", "/", ":", "b", "+", "/", ":", "c", "?" >>) => Len(job.examples) = 24
        /\ (job.options.minLengthOnly \/ job.options.maxLengthOnly) => Len(job.examples) = 1

C17_Witness ==
    /\ Returned
    /\ DefaultCall
    /\ route.path = << "/", ":", "a", "*", "/", ":", "b", "+", "/", ":", "c", "?" >>
    /\ Len(job.examples) = 24

\* C18: an optional (?) parameter for which a custom value is supplied by name,
\* or for which a fixed value is in force, occurs exactly once in every
\* generated example: it contributes cardinality 1 and is never omitted.
C18_GivenOptionalParameterOccursOnce ==
    job.state \in {"running", "returned"} =>
        \A ci \in 1..Len(job.countsPerParameter), i \in 1..Len(route.parameters) :
            (/\ route.parameters[i].name = job.countsPerParameter[ci].name
             /\ route.parameters[i].modifier = << "?" >>
             /\ \/ DictHas(job.customValues, route.parameters[i].name)
                \/ Truthy(job.options.fixValue))
                => /\ job.countsPerParameter[ci].min = 1
                   /\ job.countsPerParameter[ci].max = 1
                   /\ \A k \in 1..Len(job.cases) : job.cases[k][ci] = 1

\* the case with the given number, counting from 0, least significant
\* parameter first
Numbered(counters, number) ==
    [ci \in 1..Len(counters) |->
        counters[ci].min
            + ((number \div Sizes(counters, ci - 1)) % (counters[ci].max - counters[ci].min + 1))]

\* C19: across the iterations of generateExamples the counters form a
\* mixed-radix counter that visits every combination in the product of the
\* ranges [min .. max] exactly once: the first example uses min occurrences for
\* every parameter, the last uses max for every parameter, each counter stays
\* within [min, max] at every step, and after the last example the counters
\* have wrapped back to all-min.
C19_CountersFormMixedRadixCounter ==
    (job.state \in {"running", "returned"} /\ job.count > 0) =>
        /\ \A ci \in 1..Len(job.countsPerParameter) :
            /\ job.countsPerParameter[ci].min <= job.countsPerParameter[ci].next
            /\ job.countsPerParameter[ci].next <= job.countsPerParameter[ci].max
        /\ Len(job.cases) = job.i
        /\ job.i <= job.count
        /\ \A k \in 1..Len(job.cases) :
            job.cases[k] = Numbered(job.countsPerParameter, k - 1)
        /\ \A k, l \in 1..Len(job.cases) : job.cases[k] = job.cases[l] => k = l
        /\ job.i >= 1 =>
            \A ci \in 1..Len(job.countsPerParameter) :
                job.cases[1][ci] = job.countsPerParameter[ci].min
        /\ job.i = job.count =>
            /\ job.count = Sizes(job.countsPerParameter, Len(job.countsPerParameter))
            /\ \A ci \in 1..Len(job.countsPerParameter) :
                /\ job.cases[job.count][ci] = job.countsPerParameter[ci].max
                /\ job.countsPerParameter[ci].next = job.countsPerParameter[ci].min

C19_Witness ==
    /\ Returned
    /\ route.path = << "/", ":", "a", "*", "/", ":", "b", "+", "/", ":", "c", "?" >>
    /\ job.count = 24
    /\ job.cases[1] = << 0, 1, 0 >>
    /\ job.cases[2] = << 1, 1, 0 >>
    /\ job.cases[3] = << 0, 2, 0 >>
    /\ job.cases[24] = << 1, 3, 3 >>
    /\ Case(job.countsPerParameter) = << 0, 1, 0 >>

----------------------------------------------------------------------------
(* Properties of the fields of a route *)

\* C20: after construction no sequence of operations on a Route, attempted
\* assignments to its fields and calls of generateExamples and
\* selectProbablyCoveredPrefixes in any order, changes the value of source,
\* target, method, path, prefix, pattern, parameters, compile, args, handler,
\* warning or isValid.
C20_FieldsNeverChange ==
    [][/\ route' = route
       /\ \A field \in Fields : route'[field] = route[field]]_vars

C20_Witness ==
    /\ call.class = "assign"
    /\ call.field = "handler"
    /\ ~route.threw
    /\ route.handler = Fun("f1")
    /\ route.isValid
    /\ route.parameters # <<>>

----------------------------------------------------------------------------
(* Properties of the target parser *)

\* the list a descriptor's args stand for: the list itself, or the single value
SuppliedArgs(tgt) ==
    IF IsArray(GetProp(tgt, "args")) THEN GetProp(tgt, "args").items
    ELSE << GetProp(tgt, "args") >>

\* C21: for a descriptor target that carries args the compiled route's args are
\* the supplied list when args is a list and the single-element list [args]
\* otherwise, whichever of module, controller and policy names the symbol and
\* whether or not the handler could be resolved; for string targets and direct
\* callable targets args is the empty list.
C21_ArgsAreCaptured ==
    (Compiled /\ ~route.threw) =>
        /\ (call.target.t = "object" /\ HasOwn(call.target, "args"))
                => route.args = SuppliedArgs(call.target)
        /\ call.target.t \in {"string", "function"} => route.args = <<>>

\* C21, for the routes whose handler could be resolved
C21_ArgsOfResolvedHandler ==
    (Compiled /\ ~route.threw /\ route.isValid) =>
        /\ (call.target.t = "object" /\ HasOwn(call.target, "args"))
                => route.args = SuppliedArgs(call.target)
        /\ call.target.t \in {"string", "function"} => route.args = <<>>

C21_ResolvedWithArgs ==
    /\ Compiled
    /\ ~route.threw
    /\ route.isValid
    /\ call.target.t = "object"
    /\ GetProp(call.target, "args") = Num(5)
    /\ route.args = << Num(5) >>

\* handler, validity and warning of two compilations are the same
SameOutcome(a, b) ==
    /\ a.threw = b.threw
    /\ ~a.threw => /\ a.handler = b.handler
                   /\ a.isValid = b.isValid
                   /\ a.warning = b.warning

\* the selector <name>::<method>
Address(name, method) == Str(name \o << ":", ":" >> \o method)

\* the route the latest call had produced for another target
RouteTo(tgt) == Construct(VariantOf(call.class), call.source, tgt, api).route

\* a selector string giving a name, with or without a method
IsSelector(tgt) == tgt.t = "string" /\ TargetRegExp(trim(tgt.s)).ok

\* the name a descriptor without method gives the component by
ComponentOnly(tgt) ==
    /\ tgt.t = "object"
    /\ ~Truthy(GetProp(tgt, "method"))
    /\ \E field \in {"module", "controller", "policy"} :
            GetProp(tgt, field).t = "string" /\ Truthy(GetProp(tgt, field))

ComponentName(tgt) ==
    IF Truthy(GetProp(tgt, "module")) THEN GetProp(tgt, "module").s
    ELSE IF Truthy(GetProp(tgt, "controller")) THEN GetProp(tgt, "controller").s
    ELSE GetProp(tgt, "policy").s

\* C22, for selector strings: a name without method compiles as <name>::index,
\* and a name and a method compile the same whichever separator joins them
C22_SelectorDefaultsToIndex ==
    (Compiled /\ ApiUsable(api) /\ IsSelector(call.target)) =>
        LET match == TargetRegExp(trim(call.target.s))
        IN  IF match.method = Undefined
            THEN SameOutcome(route, RouteTo(Address(match.module, INDEX)))
            ELSE SameOutcome(route, RouteTo(Address(match.module, match.method.s)))

\* C22: a target that names the component only, the string Name or a
\* descriptor giving controller, policy or module without method, addresses the
\* component's index method and compiles to the same handler, validity and
\* warning as the target Name::index; the separators . :: and # between name
\* and method are equivalent.
C22_ComponentOnlyMeansIndex ==
    /\ C22_SelectorDefaultsToIndex
    /\ (Compiled /\ ApiUsable(api) /\ ComponentOnly(call.target)) =>
            SameOutcome(route, RouteTo(Address(ComponentName(call.target), INDEX)))

C22_SelectorWithoutMethod ==
    /\ Compiled
    /\ call.class = "TerminalRoute"
    /\ call.target = Str(<< "J", "o", "b" >>)
    /\ ~route.threw
    /\ route.handler = Fun("controllers.Job.index")

C22_SeparatorsAgree ==
    /\ Compiled
    /\ call.class = "TerminalRoute"
    /\ call.target = Str(<< "J", "o", "b", "#", "r", "u", "n" >>)
    /\ ~route.threw
    /\ route.handler = Fun("controllers.Job.run")

\* C29: compiling a route never modifies the target definition supplied by the
\* caller: after construction Route.target and the caller's descriptor, which
\* later compilations reuse, still hold the original values, so a module name
\* ending in Controller or Policy keeps its suffix.
C29_TargetIsNotModified ==
    Compiled =>
        /\ target = call.target
        /\ ~route.threw => route.target = call.target

\* C29, but for descriptors naming a module with the suffix of the variant
C29_OnlySuffixedModuleIsModified ==
    (Compiled /\ (target # call.target \/ (~route.threw /\ route.target # call.target))) =>
        /\ call.target.t = "object"
        /\ GetProp(call.target, "module").t = "string"
        /\ EndsWith(toLowerCase(GetProp(call.target, "module").s),
                    VariantOf(call.class).tailPattern)
        /\ target = Obj([call.target.props EXCEPT
                            !.module = Str(StripTail(VariantOf(call.class).tailPattern, @.s))])

C29_DescriptorKept ==
    /\ Compiled
    /\ call.class = "PolicyRoute"
    /\ ~route.threw
    /\ GetProp(call.target, "module") = Str(<< "J", "o", "b", "C", "o", "n", "t", "r", "o", "l", "l", "e", "r" >>)
    /\ route.target = call.target
    /\ target = call.target

----------------------------------------------------------------------------
(* Properties of matching and rendering *)

Matched == call.class = "compile"

\* no anonymous group directly follows another parameter
Unambiguous(parameters, tokens) ==
    \A k \in 2..Len(tokens) :
        (tokens[k].kind = "key" /\ tokens[k].numbered) => tokens[k - 1].kind = "text"

\* C23: for every compiled route without ambiguous anonymous groups and every
\* path p accepted by route.pattern, applying route.compile to the parameter
\* values captured by that match, repeatable parameters split into their
\* segments and absent optional parameters omitted, returns p, modulo
\* percent-encoding of the values.
C23_CompileInvertsPattern ==
    (Matched /\ Unambiguous(route.parameters, route.compile.tokens)) =>
        /\ ~call.result.threw
        /\ decodeURIComponent(call.result.path) = call.path

\* C23, but for the text the tokens of the pattern matched, and for
\* parameters with the default pattern
C23_CompileRendersMatchedText ==
    (Matched /\ Unambiguous(route.parameters, route.compile.tokens)) =>
        /\ call.result.threw =>
                \E i \in 1..Len(route.parameters) :
                    route.parameters[i].pattern # DefaultPattern
        /\ ~call.result.threw =>
                decodeURIComponent(call.result.path) = SubSeq(call.path, 1, call.match.inner)
        /\ call.match.end - call.match.inner \in {0, 1}
        /\ route.pattern.end => call.match.end = Len(call.path)

C23_RoundTrip ==
    /\ Matched
    /\ route.path = << "/", ":", "x", "*", "/", "a" >>
    /\ call.path = << "/", "=", "/", "a" >>
    /\ call.match.values = << [key |-> << "x" >>, value |-> Arr(<< Str(<< "=" >>) >>)] >>
    /\ call.result.path = << "/", "%", "3", "D", "/", "a" >>

----------------------------------------------------------------------------
(* Properties of normalising again *)

Renormalized == "returned" \in DOMAIN call

\* C30: normalisation is idempotent: a table returned by the Plugin, Custom or
\* Blueprint normaliser, handed to the same normaliser, is accepted and comes
\* back with the same stages, the same keys in the same order and the same
\* targets.
C30_NormalizingAgainChangesNothing ==
    Renormalized =>
        /\ ~table.threw
        /\ table.value = call.returned

C30_Witness ==
    /\ Renormalized
    /\ call.class = "Custom"
    /\ ~table.threw
    /\ table.value = call.returned
    /\ Len(table.value.props.before.entries) >= 2
    /\ \E i \in 1..Len(table.value.props.before.entries) :
            IsArray(table.value.props.before.entries[i].value)

C30_BlueprintWitness ==
    /\ Renormalized
    /\ call.class = "Blueprint"
    /\ ~table.threw
    /\ table.value.t = "map"
    /\ Len(table.value.entries) >= 2

----------------------------------------------------------------------------
(* Properties of the basic server *)

\* C24: once the server has been listening, Hitchy's stop() is invoked only
\* after the server has emitted close: for any sequence of shutdown triggers
\* (SIGINT, SIGTERM, server error, Hitchy's shutdown or crash event), the same
\* or different ones arriving again while the listener is still closing
\* included, stopHitchy never runs before the request listener is shut down.
C24_StopWaitsForClose ==
    server.state = "started" =>
        \A i \in 1..Len(server.stops) :
            server.stops[i].listened => server.stops[i].closed

\* C24, for the first call of stopRequestListener
C24_FirstTriggerWaits ==
    (server.state = "started" /\ server.calls <= 1) =>
        \A i \in 1..Len(server.stops) :
            server.stops[i].listened => server.stops[i].closed

C24_StoppedAfterClose ==
    /\ server.state = "started"
    /\ server.calls = 1
    /\ Len(server.stops) = 1
    /\ server.stops[1].listened
    /\ server.stops[1].closed

\* C25: in every run in which shutdown is triggered once or more often (by
\* signals, server error, Hitchy's shutdown or crash event or a failed start)
\* the onShutdown callback is invoked once, not more often, and only after
\* Hitchy's stop() has settled; stop() itself is invoked at most once.
C25_OneStopOneShutdown ==
    server.state = "started" =>
        /\ Len(server.stops) <= 1
        /\ server.shutdowns <= 1
        /\ server.shutdowns + server.ticks
                <= Cardinality({i \in 1..Len(server.stops) : server.stops[i].settled})

\* C25, for the first call of stopRequestListener
C25_FirstTriggerStopsOnce ==
    (server.state = "started" /\ server.calls <= 1) =>
        /\ Len(server.stops) <= 1
        /\ server.shutdowns <= 1
        /\ server.shutdowns + server.ticks
                <= Cardinality({i \in 1..Len(server.stops) : server.stops[i].settled})

C25_ShutDownOnce ==
    /\ server.state = "started"
    /\ server.calls = 1
    /\ Len(server.stops) = 1
    /\ server.stops[1].settled
    /\ server.shutdowns = 1

----------------------------------------------------------------------------
(* Properties of the connect injector *)

Answered(n) == injector.requests[n]

\* C26: a request arriving while the start-up is pending or after it has
\* failed is never dispatched through the router and never passed to next();
\* the error handler answers it, with the splash (no error) while the start-up
\* is pending and with the start-up error after the start-up has failed,
\* whatever the start-up has been rejected with.
C26_NotStartedNeverDispatched ==
    injector.state = "created" =>
        \A n \in 1..Len(injector.requests) :
            LET request == Answered(n)
            IN  /\ request.phase \in {"pending", "rejected"} =>
                        ~request.dispatched /\ request.next = 0
                /\ request.phase = "pending" => request.errorHandler = <<"none">>
                /\ request.phase = "rejected" => request.errorHandler = <<"startupError">>

\* C26, for a start-up pending or rejected with an error that has no property
\* hitchy
C26_PlainErrorNeverDispatched ==
    (injector.state = "created" /\ injector.startupError.kind # "undefined"
            /\ ~injector.startupError.hitchy) =>
        \A n \in 1..Len(injector.requests) :
            LET request == Answered(n)
            IN  /\ request.phase \in {"pending", "rejected"} =>
                        ~request.dispatched /\ request.next = 0
                /\ request.phase = "pending" => request.errorHandler = <<"none">>
                /\ request.phase = "rejected" => request.errorHandler = <<"startupError">>

C26_AnsweredWithStartupError ==
    /\ injector.state = "created"
    /\ \E n \in 1..Len(injector.requests) :
        /\ Answered(n).phase = "rejected"
        /\ Answered(n).errorHandler = <<"startupError">>
    /\ \E n \in 1..Len(injector.requests) :
        /\ Answered(n).phase = "pending"
        /\ Answered(n).errorHandler = <<"none">>

\* what C27 demands of one request handled after a successful start-up
NextOrErrorHandler(request) ==
    /\ request.next > 0 <=> /\ request.outcome = "resolved"
                            /\ ~request.finished
                            /\ ~request.byTerminal
                            /\ ~request.byPolicy
    /\ (request.outcome = "resolved" /\ request.byPolicy /\ ~request.byTerminal
            /\ ~request.finished) => request.errorHandler # <<>>
    /\ request.outcome = "rejected" => request.errorHandler = <<"rejection">>
    /\ ~(request.next > 0 /\ request.errorHandler # <<>>)

\* C27: for a request handled after a successful start-up, next() is called
\* if and only if dispatch resolved with the response unfinished and neither
\* a terminal route nor a policy consumed the request; consumed by a policy
\* only and unfinished, the error handler responds; on dispatch rejecting the
\* error handler is called with the error; next() and the error handler are
\* never both invoked for one request.
C27_EitherNextOrErrorHandler ==
    injector.state = "created" =>
        \A n \in 1..Len(injector.requests) :
            (Answered(n).phase = "resolved" /\ Answered(n).state = "done") =>
                NextOrErrorHandler(Answered(n))

\* C27, for requests whose callback, next() or the error handler, returns
C27_WhenNextReturns ==
    injector.state = "created" =>
        \A n \in 1..Len(injector.requests) :
            (Answered(n).phase = "resolved" /\ Answered(n).state = "done"
                    /\ ~Answered(n).threw) =>
                NextOrErrorHandler(Answered(n))

C27_PassedToNext ==
    /\ injector.state = "created"
    /\ \E n \in 1..Len(injector.requests) :
        /\ Answered(n).phase = "resolved"
        /\ Answered(n).next = 1
        /\ Answered(n).errorHandler = <<>>
    /\ \E n \in 1..Len(injector.requests) :
        /\ Answered(n).phase = "resolved"
        /\ Answered(n).outcome = "rejected"

\* C28: stop() invokes bootstrap.shutdown() only after the start-up has
\* settled or the timer of the start-up has expired, never while the start-up
\* is running and the timer is; stop() is never rejected with the failure of
\* the start-up or with the timeout; without an API stop() resolves and
\* shutdown() is not called.
C28_StopShutsDownAfterStartup ==
    injector.state = "created" =>
        \A n \in 1..Len(injector.stops) :
            LET stopped == injector.stops[n]
            IN  /\ stopped.shutdown => stopped.starter # "pending" \/ stopped.expired
                /\ stopped.state = "rejected" => stopped.rejected = "shutdown"
                /\ (stopped.state # "racing" /\ ~stopped.api) =>
                        stopped.state = "resolved" /\ ~stopped.shutdown

C28_Witness ==
    /\ injector.state = "created"
    /\ Len(injector.stops) = 2
    /\ injector.stops[1].state = "resolved"
    /\ injector.stops[1].starter = "pending"
    /\ injector.stops[1].expired
    /\ ~injector.stops[1].shutdown
    /\ injector.stops[2].state = "resolved"
    /\ injector.stops[2].starter = "resolved"
    /\ injector.stops[2].shutdown

C28_FailureWitness ==
    /\ injector.state = "created"
    /\ \E n \in 1..Len(injector.stops) :
        /\ injector.stops[n].state = "resolved"
        /\ injector.stops[n].starter = "rejected"
        /\ ~injector.stops[n].shutdown

====
